---- MODULE Spec2Model ----
(***************************************************************************)
(* The auth service of blogmicrobackend: the OAuth2 callback / exchange    *)
(* flow and the session-token lifecycle (AuthService over the Redis token  *)
(* repository and the JWT manager).                                        *)
(*                                                                         *)
(* The clock is sampled: instant k of the model is the clock second at     *)
(* k times five minutes, the granularity at which the TTLs of the code     *)
(* differ (5, 10 and 15 minutes), and every request is served in one of    *)
(* these seconds.  The refresh TTL of 168 hours is scaled down to one      *)
(* instant more than the access TTL.  A JWT is a function of its claims    *)
(* and its second of issuance, so two tokens minted for the same subject   *)
(* and class at the same instant are the same string.                      *)
(*                                                                         *)
(* Spec serves the requests one at a time against a store that answers     *)
(* every command.  SpecConc runs ExchangeAuthCode and HandleGoogleCallback *)
(* requests concurrently: the GET and the DEL of a request's pipeline are  *)
(* separate steps of the store, the rest of the handler is one step.       *)
(***************************************************************************)
EXTENDS Integers, FiniteSets, Sequences, TLC

\* ------------------------------------------------------------- bounds
MaxTime == 3
\* uuid.New() values of each kind (states, exchange codes)
MaxNonces == 2
\* successful RefreshToken and Logout calls
MaxSessionOps == 2
\* requests in flight (SpecConc)
MaxReqs == 2

\* ------------------------------------------------- program constants
\* TTLs in instants of five minutes; RefreshTokenTTL scaled down
StateTTL == 2
AuthCodeTTL == 1
AccessTokenTTL == 3
RefreshTokenTTL == 4

TokenIssuer == "auth-service"
ConfigIssuer == "auth-service"

ErrInvalidGoogleCode == "INVALID_GOOGLE_CODE"
ErrInvalidRefreshToken == "INVALID_REFRESH_TOKEN"
ErrInvalidAccessToken == "INVALID_ACCESS_TOKEN"
ErrInvalidTokenType == "INVALID_TOKEN_TYPE"
ErrTokenNotFound == "TOKEN_NOT_FOUND"
ErrTokenBlacklisted == "TOKEN_BLACKLISTED"
OK == "OK"

\* --------------------------------------------------------- identities
\* GoogleUserInfo: the fields IsValid and the tokens read
UserInfo(id, email, verified) == [ID |-> id, Email |-> email, VerifiedEmail |-> verified]

NoInfo == UserInfo("", "", FALSE)

GoogleUserInfos ==
    { UserInfo("u1", "a@b.com", TRUE),
      UserInfo("u2", "c@d.com", TRUE),
      UserInfo("u1", "a@b.com", FALSE),
      UserInfo("u3", "e@f.com", FALSE),
      UserInfo("", "a@b.com", TRUE),
      UserInfo("u2", "", TRUE) }

\* What ExchangeCodeForToken can answer for an authorization code: an
\* error, or the profile the provider holds
ProviderAnswers ==
    {[err |-> TRUE, info |-> NoInfo]} \cup {[err |-> FALSE, info |-> u] : u \in GoogleUserInfos}

\* an identity check that does not look at the verified flag
IsValidUnverified(u) == u.ID # "" /\ u.Email # ""

IsValid(u) == u.ID # "" /\ u.Email # "" /\ u.VerifiedEmail

\* ------------------------------------------------------------- tokens
\* A signed token string is determined by its claims, the issuer and the
\* second of issuance (HS256 is deterministic); exp is iat + ttl and is
\* part of the string.  sig is whether the signature is the server's.
GenerateToken(userID, email, typ, ttl, t) ==
    [UserID |-> userID, Email |-> email, Type |-> typ, iat |-> t, exp |-> t + ttl,
     iss |-> TokenIssuer, sig |-> TRUE]

\* Strings a client can present without the secret: payloads of either
\* class under a signature that does not verify.
ForgedTokens ==
    { [UserID |-> "u1", Email |-> "a@b.com", Type |-> typ, iat |-> 0,
       exp |-> MaxTime + RefreshTokenTTL + 1, iss |-> TokenIssuer, sig |-> FALSE]
      : typ \in {"access", "refresh"} }

\* Manager.issuer: the issuer the Manager was constructed with
VARIABLE issuer

\* jwt.Manager.ValidateToken at time t: signature, exp, nbf, issuer
JwtValid(tok, t) ==
    /\ tok.sig
    /\ t < tok.exp
    /\ tok.iat <= t
    /\ tok.iss = issuer

\* a verifier that hands back every token as an access token
JwtClaimsAccessOnly(tok) == [UserID |-> tok.UserID, Email |-> tok.Email, Type |-> "access"]

\* jwt.Manager.ValidateToken: the TokenClaims it returns for a token it accepts
JwtClaims(tok) == [UserID |-> tok.UserID, Email |-> tok.Email, Type |-> tok.Type]

VARIABLES
    now,          \* the clock
    oauthStates,  \* oauth:state:<s>    -> [exp]      (the value is s itself)
    authCodes,    \* auth:code:<c>      -> [info, exp]
    accessTokens, \* auth:access:<t>    -> [UserID, Email, exp]
    refreshTokens,\* auth:refresh:<t>   -> [UserID, Email, exp]
    blacklist,    \* auth:blacklist:<t> -> [exp]
    nextState,    \* uuid.New() for states: the next unused nonce
    nextCode,     \* uuid.New() for exchange codes
    issued,       \* history: every token string ever minted
    statePasses,  \* history: per state, the callbacks that passed the state check
    stateCodes,   \* history: per state, the exchange codes minted for it
    codeGrants,   \* history: per exchange code, the token pairs issued for it
    loggedOut,    \* history: tokens minted before a successful logout of their subject
    rotated,      \* history: refresh tokens a successful RefreshToken presented
    nSessionOps,  \* history: the number of successful RefreshToken and Logout calls
    last,         \* the last request answered and its answer
    reqs,         \* SpecConc: the requests in flight
    maxRetries,   \* notification-service: config.MaxRetries of the rabbitmq Client
    consumer,     \* notification-service: the consuming goroutine inside processMessages
    settled,      \* history: per delivery, the handler calls, Acks and Rejects issued
    counters,     \* api-gateway: rate_limit:<client> -> [count, exp]
    tokens        \* api-gateway: the tokens left in the global rate.Limiter

store == <<oauthStates, authCodes, accessTokens, refreshTokens, blacklist>>
hist == <<issued, statePasses, stateCodes, codeGrants, loggedOut, rotated, nSessionOps>>
satellite == <<issuer, maxRetries, consumer, settled, counters, tokens>>
vars == <<now, oauthStates, authCodes, accessTokens, refreshTokens, blacklist,
          nextState, nextCode, issued, statePasses, stateCodes, codeGrants,
          loggedOut, rotated, nSessionOps, last, reqs, satellite>>

\* ------------------------------------------------- the transient store
\* SET key value EX ttl
Put(f, k, v) == [x \in DOMAIN f \cup {k} |-> IF x = k THEN v ELSE f[x]]
\* DEL key
Del(f, k) == [x \in DOMAIN f \ {k} |-> f[x]]
\* a keyspace whose keys never expire
LiveForever(f, t) == f

\* what is left of a keyspace at time t
Live(f, t) == [x \in {k \in DOMAIN f : f[k].exp > t} |-> f[x]]

Empty == [x \in {} |-> 0]

Answer(op, arg, res, idp, out) ==
    [op |-> op, arg |-> arg, res |-> res, idp |-> idp, out |-> out]

Idle == [pc |-> "idle", op |-> "none", key |-> 0, got |-> FALSE, info |-> NoInfo]

\* the satellite services at construction: the auth service's Manager with
\* the default issuer, the notification consumer between two deliveries
\* with the default MaxRetries, the gateway's limiter with no counter key
\* and a full bucket
DefaultMaxRetries == 3
MaxDeliveries == 3
BurstSize == 1
ConsumerIdle == [pc |-> "idle", d |-> 0, retries |-> 0]
Unsettled == [calls |-> 0, acks |-> 0, rejects |-> 0, ok |-> FALSE, returned |-> FALSE]

ConsumerConstructed ==
    /\ consumer = ConsumerIdle
    /\ settled = [d \in 1..MaxDeliveries |-> Unsettled]

LimiterConstructed ==
    /\ counters = Empty
    /\ tokens = BurstSize

SatelliteInit ==
    /\ issuer = ConfigIssuer
    /\ maxRetries = DefaultMaxRetries
    /\ ConsumerConstructed
    /\ LimiterConstructed

Init ==
    /\ now = 0
    /\ oauthStates = Empty
    /\ authCodes = Empty
    /\ accessTokens = Empty
    /\ refreshTokens = Empty
    /\ blacklist = Empty
    /\ nextState = 1
    /\ nextCode = 1
    /\ issued = {}
    /\ statePasses = [s \in 1..MaxNonces |-> 0]
    /\ stateCodes = [s \in 1..MaxNonces |-> 0]
    /\ codeGrants = [c \in 1..MaxNonces |-> 0]
    /\ loggedOut = {}
    /\ rotated = {}
    /\ nSessionOps = 0
    /\ last = Answer("init", 0, OK, FALSE, <<>>)
    /\ reqs = [p \in 1..MaxReqs |-> Idle]
    /\ SatelliteInit

\* ----------------------------------------------- TokenRepository (Redis)
\* GET of the pipeline in GetAndDeleteState / GetAndDeleteAuthCode
Found(f, k) == k \in DOMAIN f

\* a take that reads the key and leaves it in place
AfterGetOnlyState(f, k) == f
\* GetAndDeleteState: the keyspace once the pipeline (GET, DEL) has run
GetAndDeleteState(f, k) == Del(f, k)

\* a take that reads the key and leaves it in place
AfterGetOnlyAuthCode(f, k) == f
\* GetAndDeleteAuthCode: the keyspace once the pipeline (GET, DEL) has run
GetAndDeleteAuthCode(f, k) == Del(f, k)

\* GetTokenData: the access key first, then the refresh key
HasTokenData(tok) == tok \in DOMAIN accessTokens \/ tok \in DOMAIN refreshTokens
GetTokenData(tok) ==
    IF tok \in DOMAIN accessTokens THEN accessTokens[tok] ELSE refreshTokens[tok]

IsTokenBlacklisted(tok) == tok \in DOMAIN blacklist

\* a blacklist entry that lasts exactly as long as the token does
BlacklistRemainingLife(f, tok, ttl) == Put(f, tok, [exp |-> tok.exp])

BlacklistToken(f, tok, ttl) == Put(f, tok, [exp |-> now + ttl])

\* a logout that drops the entries of every subject
DeleteAllTokens(f, userID) == Empty

\* DeleteUserTokens: every token entry whose StoredToken names the user
DeleteUserTokens(f, userID) ==
    [x \in {k \in DOMAIN f : f[k].UserID # userID} |-> f[x]]

\* a record that names another subject than the one it is stored for
StoredTokenOtherSubject(u, ttl) == [UserID |-> "u2", Email |-> u.Email, exp |-> now + ttl]

StoredToken(u, ttl) == [UserID |-> u.ID, Email |-> u.Email, exp |-> now + ttl]

\* ------------------------------------------------------- AuthService
\* generateTokenPair: <<access, refresh>> for the user, minted now
generateTokenPair(u) ==
    << GenerateToken(u.ID, u.Email, "access", AccessTokenTTL, now),
       GenerateToken(u.ID, u.Email, "refresh", RefreshTokenTTL, now) >>

\* ValidateToken with the class check moved first, without the blacklist
\* check, without the record check
ValidateTypeFirst(tok) ==
    IF tok.Type # "access" THEN ErrInvalidTokenType
    ELSE IF IsTokenBlacklisted(tok) THEN ErrTokenBlacklisted
    ELSE IF ~JwtValid(tok, now) THEN ErrInvalidAccessToken
    ELSE IF ~HasTokenData(tok) THEN ErrTokenNotFound
    ELSE OK
ValidateNoBlacklist(tok) ==
    IF ~JwtValid(tok, now) THEN ErrInvalidAccessToken
    ELSE IF tok.Type # "access" THEN ErrInvalidTokenType
    ELSE IF ~HasTokenData(tok) THEN ErrTokenNotFound
    ELSE OK
ValidateNoRecord(tok) ==
    IF IsTokenBlacklisted(tok) THEN ErrTokenBlacklisted
    ELSE IF ~JwtValid(tok, now) THEN ErrInvalidAccessToken
    ELSE IF tok.Type # "access" THEN ErrInvalidTokenType
    ELSE OK
\* the answer of ValidateToken(tok) in the current state
ValidateTokenResult(tok) ==
    IF IsTokenBlacklisted(tok) THEN ErrTokenBlacklisted
    ELSE IF ~JwtValid(tok, now) THEN ErrInvalidAccessToken
    ELSE IF tok.Type # "access" THEN ErrInvalidTokenType
    ELSE IF ~HasTokenData(tok) THEN ErrTokenNotFound
    ELSE OK

\* the body ValidateToken returns on success: the ids of the parsed claims
ValidateTokenResponse(tok) == <<tok.UserID, tok.Email>>

\* RefreshToken without the class check
RefreshNoTypeCheck(tok) ==
    IF ~JwtValid(tok, now) THEN ErrInvalidRefreshToken
    ELSE IF ~HasTokenData(tok) THEN ErrTokenNotFound
    ELSE IF IsTokenBlacklisted(tok) THEN ErrTokenBlacklisted
    ELSE OK

\* RefreshToken with the blacklist check moved in front of the others
RefreshBlacklistFirst(tok) ==
    IF IsTokenBlacklisted(tok) THEN ErrTokenBlacklisted
    ELSE IF ~JwtValid(tok, now) THEN ErrInvalidRefreshToken
    ELSE IF tok.Type # "refresh" THEN ErrInvalidTokenType
    ELSE IF ~HasTokenData(tok) THEN ErrTokenNotFound
    ELSE OK

\* the answer of RefreshToken(tok) in the current state
RefreshTokenResult(tok) ==
    IF ~JwtValid(tok, now) THEN ErrInvalidRefreshToken
    ELSE IF tok.Type # "refresh" THEN ErrInvalidTokenType
    ELSE IF ~HasTokenData(tok) THEN ErrTokenNotFound
    ELSE IF IsTokenBlacklisted(tok) THEN ErrTokenBlacklisted
    ELSE OK

\* the token strings a client can present
Presentable == issued \cup ForgedTokens

GetGoogleAuthURL ==
    /\ nextState <= MaxNonces
    /\ oauthStates' = Put(oauthStates, nextState, [exp |-> now + StateTTL])
    /\ nextState' = nextState + 1
    /\ last' = Answer("authurl", nextState, OK, FALSE, <<nextState>>)
    /\ UNCHANGED <<now, authCodes, accessTokens, refreshTokens, blacklist,
                   nextCode, hist, reqs, satellite>>

\* HandleGoogleCallback after the state check has passed for state s: a is
\* what the provider answers for the request's code.  The identity the
\* provider returned is logged before IsValid looks at it: a refused
\* answer keeps it in out.
CallbackAfterState(s, a) ==
    /\ statePasses' = [statePasses EXCEPT ![s] = @ + 1]
    /\ IF a.err \/ ~IsValid(a.info)
       THEN /\ last' = Answer("callback", s, ErrInvalidGoogleCode, TRUE,
                              IF a.err THEN <<>> ELSE <<a.info>>)
            /\ UNCHANGED <<authCodes, nextCode, stateCodes>>
       ELSE /\ nextCode <= MaxNonces
            /\ authCodes' = Put(authCodes, nextCode, [info |-> a.info, exp |-> now + AuthCodeTTL])
            /\ nextCode' = nextCode + 1
            /\ stateCodes' = [stateCodes EXCEPT ![s] = @ + 1]
            /\ last' = Answer("callback", s, OK, TRUE, <<nextCode>>)
    /\ UNCHANGED <<now, accessTokens, refreshTokens, blacklist, nextState,
                   issued, codeGrants, loggedOut, rotated, nSessionOps>>

\* a callback that goes on without looking at the stored state
CallbackNoStateCheck(s, a) ==
    /\ s \in 1..MaxNonces
    /\ oauthStates' = Del(oauthStates, s)
    /\ CallbackAfterState(s, a)
    /\ UNCHANGED <<reqs, satellite>>

HandleGoogleCallback(s, a) ==
    IF ~Found(oauthStates, s)
    THEN /\ last' = Answer("callback", s, ErrInvalidGoogleCode, FALSE, <<>>)
         /\ UNCHANGED <<now, store, nextState, nextCode, hist, reqs, satellite>>
    ELSE /\ oauthStates' = GetAndDeleteState(oauthStates, s)
         /\ CallbackAfterState(s, a)
         /\ UNCHANGED <<reqs, satellite>>

\* a storeTokens that replaces the subject's entries by the new pair's
storeTokensReplacing(pair, u) ==
    /\ accessTokens' = Put(DeleteUserTokens(accessTokens, u.ID), pair[1],
                           StoredToken(u, AccessTokenTTL))
    /\ refreshTokens' = Put(DeleteUserTokens(refreshTokens, u.ID), pair[2],
                            StoredToken(u, RefreshTokenTTL))

\* storeTokens: both entries of the pair, each with its own TTL
storeTokens(pair, u) ==
    /\ accessTokens' = Put(accessTokens, pair[1], StoredToken(u, AccessTokenTTL))
    /\ refreshTokens' = Put(refreshTokens, pair[2], StoredToken(u, RefreshTokenTTL))

\* ExchangeAuthCode after the take of code c has returned the identity u
ExchangeAfterTake(c, u) ==
    LET pair == generateTokenPair(u) IN
    /\ storeTokens(pair, u)
    /\ issued' = issued \cup {pair[1], pair[2]}
    /\ codeGrants' = [codeGrants EXCEPT ![c] = @ + 1]
    /\ last' = Answer("exchange", c, OK, FALSE, pair)
    /\ UNCHANGED <<now, oauthStates, blacklist, nextState, nextCode,
                   statePasses, stateCodes, loggedOut, rotated, nSessionOps>>

ExchangeAuthCode(c) ==
    IF ~Found(authCodes, c)
    THEN /\ last' = Answer("exchange", c, ErrInvalidGoogleCode, FALSE, <<>>)
         /\ UNCHANGED <<now, store, nextState, nextCode, hist, reqs, satellite>>
    ELSE /\ authCodes' = GetAndDeleteAuthCode(authCodes, c)
         /\ ExchangeAfterTake(c, authCodes[c].info)
         /\ UNCHANGED <<reqs, satellite>>

RefreshToken(tok) ==
    LET res == RefreshTokenResult(tok) IN
    IF res # OK
    THEN /\ last' = Answer("refresh", 0, res, FALSE, <<>>)
         /\ UNCHANGED <<now, store, nextState, nextCode, hist, reqs, satellite>>
    ELSE LET st == GetTokenData(tok)
             u == UserInfo(st.UserID, st.Email, FALSE)
             pair == generateTokenPair(u)
         IN /\ nSessionOps < MaxSessionOps
            /\ nSessionOps' = nSessionOps + 1
            /\ blacklist' = BlacklistToken(blacklist, tok, RefreshTokenTTL)
            /\ storeTokens(pair, u)
            /\ issued' = issued \cup {pair[1], pair[2]}
            /\ rotated' = rotated \cup {tok}
            /\ last' = Answer("refresh", 0, OK, FALSE, pair)
            /\ UNCHANGED <<now, oauthStates, authCodes, nextState, nextCode,
                           statePasses, stateCodes, codeGrants, loggedOut, reqs, satellite>>

\* a Logout that turns away a token that is blacklisted or has no record
LogoutOfLiveSession(tok) ==
    IF ~JwtValid(tok, now) \/ IsTokenBlacklisted(tok) \/ ~HasTokenData(tok)
    THEN /\ last' = Answer("logout", 0, ErrInvalidAccessToken, FALSE, <<>>)
         /\ UNCHANGED <<now, store, nextState, nextCode, hist, reqs, satellite>>
    ELSE /\ nSessionOps < MaxSessionOps
         /\ nSessionOps' = nSessionOps + 1
         /\ accessTokens' = DeleteUserTokens(accessTokens, tok.UserID)
         /\ refreshTokens' = DeleteUserTokens(refreshTokens, tok.UserID)
         /\ blacklist' = BlacklistToken(blacklist, tok, AccessTokenTTL)
         /\ loggedOut' = loggedOut \cup {t \in issued : t.UserID = tok.UserID}
         /\ last' = Answer("logout", 0, OK, FALSE, <<>>)
         /\ UNCHANGED <<now, oauthStates, authCodes, nextState, nextCode,
                        issued, statePasses, stateCodes, codeGrants, rotated, reqs, satellite>>

Logout(tok) ==
    IF ~JwtValid(tok, now)
    THEN /\ last' = Answer("logout", 0, ErrInvalidAccessToken, FALSE, <<>>)
         /\ UNCHANGED <<now, store, nextState, nextCode, hist, reqs, satellite>>
    ELSE /\ nSessionOps < MaxSessionOps
         /\ nSessionOps' = nSessionOps + 1
         /\ accessTokens' = DeleteUserTokens(accessTokens, tok.UserID)
         /\ refreshTokens' = DeleteUserTokens(refreshTokens, tok.UserID)
         /\ blacklist' = BlacklistToken(blacklist, tok, AccessTokenTTL)
         /\ loggedOut' = loggedOut \cup {t \in issued : t.UserID = tok.UserID}
         /\ last' = Answer("logout", 0, OK, FALSE, <<>>)
         /\ UNCHANGED <<now, oauthStates, authCodes, nextState, nextCode,
                        issued, statePasses, stateCodes, codeGrants, rotated, reqs, satellite>>

ValidateToken(tok) ==
    LET res == ValidateTokenResult(tok) IN
    /\ last' = Answer("validate", 0, res, FALSE,
                      IF res = OK THEN ValidateTokenResponse(tok) ELSE <<>>)
    /\ UNCHANGED <<now, store, nextState, nextCode, hist, reqs, satellite>>

\* the clock moves on; Redis drops the keys whose TTL has run out
Tick ==
    /\ now < MaxTime
    /\ now' = now + 1
    /\ oauthStates' = Live(oauthStates, now + 1)
    /\ authCodes' = Live(authCodes, now + 1)
    /\ accessTokens' = Live(accessTokens, now + 1)
    /\ refreshTokens' = Live(refreshTokens, now + 1)
    /\ blacklist' = Live(blacklist, now + 1)
    /\ last' = Answer("tick", 0, OK, FALSE, <<>>)
    /\ UNCHANGED <<nextState, nextCode, hist, reqs, satellite>>

Next ==
    \/ GetGoogleAuthURL
    \/ \E s \in 0..MaxNonces, a \in ProviderAnswers : HandleGoogleCallback(s, a)
    \/ \E c \in 0..MaxNonces : ExchangeAuthCode(c)
    \/ \E tok \in Presentable : RefreshToken(tok)
    \/ \E tok \in Presentable : Logout(tok)
    \/ \E tok \in Presentable : ValidateToken(tok)
    \/ Tick

Spec == Init /\ [][Next]_vars

\* ------------------------------------------------ concurrent requests
\* The pipeline of GetAndDeleteState / GetAndDeleteAuthCode is a plain
\* Pipeline, not a MULTI/EXEC transaction: the store serves its GET and its
\* DEL as two commands, and commands of other connections in between.

\* request p: the store serves the GET of the pipeline on key k of keyspace f
PipelineGet(p, op, f, k) ==
    /\ reqs[p].pc = "idle"
    /\ UNCHANGED satellite
    /\ reqs' = [reqs EXCEPT ![p] =
                 [pc |-> "del", op |-> op, key |-> k, got |-> Found(f, k),
                  info |-> IF op = "exchange" /\ Found(f, k) THEN f[k].info ELSE NoInfo]]

ExchangeGet(p, c) ==
    /\ PipelineGet(p, "exchange", authCodes, c)
    /\ UNCHANGED <<now, store, nextState, nextCode, hist, last>>

\* the store serves the DEL of the pipeline
ExchangeDel(p) ==
    /\ reqs[p].pc = "del" /\ reqs[p].op = "exchange"
    /\ authCodes' = Del(authCodes, reqs[p].key)
    /\ UNCHANGED satellite
    /\ reqs' = [reqs EXCEPT ![p].pc = "exec"]
    /\ UNCHANGED <<now, oauthStates, accessTokens, refreshTokens, blacklist,
                   nextState, nextCode, hist, last>>

\* Exec has returned: the rest of ExchangeAuthCode
ExchangeReturn(p) ==
    /\ reqs[p].pc = "exec" /\ reqs[p].op = "exchange"
    /\ UNCHANGED satellite
    /\ reqs' = [reqs EXCEPT ![p] = Idle]
    /\ IF ~reqs[p].got
       THEN /\ last' = Answer("exchange", reqs[p].key, ErrInvalidGoogleCode, FALSE, <<>>)
            /\ UNCHANGED <<now, store, nextState, nextCode, hist>>
       ELSE /\ ExchangeAfterTake(reqs[p].key, reqs[p].info)
            /\ UNCHANGED authCodes

CallbackGet(p, s) ==
    /\ PipelineGet(p, "callback", oauthStates, s)
    /\ UNCHANGED <<now, store, nextState, nextCode, hist, last>>

CallbackDel(p) ==
    /\ reqs[p].pc = "del" /\ reqs[p].op = "callback"
    /\ oauthStates' = Del(oauthStates, reqs[p].key)
    /\ UNCHANGED satellite
    /\ reqs' = [reqs EXCEPT ![p].pc = "exec"]
    /\ UNCHANGED <<now, authCodes, accessTokens, refreshTokens, blacklist,
                   nextState, nextCode, hist, last>>

\* Exec has returned: the rest of HandleGoogleCallback
CallbackReturn(p, a) ==
    /\ reqs[p].pc = "exec" /\ reqs[p].op = "callback"
    /\ UNCHANGED satellite
    /\ reqs' = [reqs EXCEPT ![p] = Idle]
    /\ IF ~reqs[p].got
       THEN /\ last' = Answer("callback", reqs[p].key, ErrInvalidGoogleCode, FALSE, <<>>)
            /\ UNCHANGED <<now, store, nextState, nextCode, hist>>
       ELSE /\ CallbackAfterState(reqs[p].key, a)
            /\ UNCHANGED oauthStates

ConcNext ==
    \/ GetGoogleAuthURL
    \/ \E p \in 1..MaxReqs, s \in 1..MaxNonces : CallbackGet(p, s)
    \/ \E p \in 1..MaxReqs : CallbackDel(p)
    \/ \E p \in 1..MaxReqs, a \in ProviderAnswers : CallbackReturn(p, a)
    \/ \E p \in 1..MaxReqs, c \in 1..MaxNonces : ExchangeGet(p, c)
    \/ \E p \in 1..MaxReqs : ExchangeDel(p)
    \/ \E p \in 1..MaxReqs : ExchangeReturn(p)

SpecConc == Init /\ [][ConcNext]_vars

\* --------------------------------------------------------- api-gateway
\* The gateway in front of the auth service and the post service.  A header
\* value is a string: an optional scheme prefix followed by what remains
\* (nothing, or one token string).  SpecGateway takes the requests that
\* reach the auth service through the gateway's routes: the login flow,
\* logout, and the validate calls of the two gates.
StatusUnauthorized == 401

Str(scheme, cred) == [scheme |-> scheme, cred |-> cred]

EmptyStr == Str("", <<>>)

\* the Authorization headers of inbound requests: absent, "Bearer " alone,
\* a bare token, "Bearer <token>"
AuthHeaders ==
    {EmptyStr, Str("Bearer ", <<>>)}
      \cup {Str(p, <<t>>) : p \in {"", "Bearer "}, t \in Presentable}

\* the X-User-ID header a client may put on an inbound request: none, or
\* one naming u2
ClientUserIDs == {<<>>, <<"u2">>}

\* strings.TrimPrefix(h, "Bearer ")
TrimPrefix(h) == IF h.scheme = "Bearer " THEN Str("", h.cred) ELSE h

\* "Bearer " + token
WithBearer(s) == IF s.scheme = "" THEN Str("Bearer ", s.cred) ELSE s

\* auth service, AuthHandler.ValidateToken: the answer to GET /validate
\* carrying the Authorization header h
AuthHandlerValidateToken(h) ==
    IF h = EmptyStr THEN ErrInvalidAccessToken
    ELSE LET token == IF h.scheme = "Bearer " /\ h.cred # <<>> THEN Str("", h.cred) ELSE h
         IN IF token.scheme = "" /\ token.cred # <<>>
            THEN ValidateTokenResult(token.cred[1])
            ELSE ErrInvalidAccessToken

NoTokenResp == [err |-> TRUE, Valid |-> FALSE, UserID |-> "", Email |-> ""]

\* gateway, AuthClient.ValidateToken: up is whether the auth service answers
AuthClientValidateToken(tokenString, up) ==
    IF ~up \/ AuthHandlerValidateToken(WithBearer(tokenString)) # OK
    THEN NoTokenResp
    ELSE LET data == ValidateTokenResponse(tokenString.cred[1])
         IN [err |-> FALSE, Valid |-> TRUE, UserID |-> data[1], Email |-> data[2]]

Aborted(code) == [abort |-> TRUE, status |-> StatusUnauthorized, code |-> code, ctx |-> <<>>]

Passed(ctx) == [abort |-> FALSE, status |-> 0, code |-> "NEXT", ctx |-> ctx]

\* a gate that lets a request through when validation fails
AuthMiddlewareLenient(h, up) ==
    LET tokenString == TrimPrefix(h)
        tokenResp == AuthClientValidateToken(tokenString, up)
    IN IF h = EmptyStr THEN Aborted("MISSING_TOKEN")
       ELSE IF tokenString = h THEN Aborted("INVALID_TOKEN_FORMAT")
       ELSE IF tokenResp.err THEN Passed(<<>>)
       ELSE Passed(<<tokenResp.UserID, tokenResp.Email>>)

\* AuthMiddleware: the gate of the protected routes.  ctx is what c.Set
\* has put in the request context.
AuthMiddleware(h, up) ==
    LET tokenString == TrimPrefix(h)
        tokenResp == AuthClientValidateToken(tokenString, up)
    IN IF h = EmptyStr THEN Aborted("MISSING_TOKEN")
       ELSE IF tokenString = h THEN Aborted("INVALID_TOKEN_FORMAT")
       ELSE IF tokenResp.err THEN Aborted("INVALID_TOKEN")
       ELSE IF ~tokenResp.Valid THEN Aborted("INVALID_TOKEN")
       ELSE Passed(<<tokenResp.UserID, tokenResp.Email>>)

\* a gate that attaches the identity a bearer token claims without asking
\* the auth service
OptionalAuthUnchecked(h, up) ==
    LET tokenString == TrimPrefix(h)
    IN IF h = EmptyStr \/ tokenString = h \/ tokenString.cred = <<>> THEN Passed(<<>>)
       ELSE Passed(ValidateTokenResponse(tokenString.cred[1]))

\* OptionalAuthMiddleware: the gate of the public routes
OptionalAuthMiddleware(h, up) ==
    LET tokenString == TrimPrefix(h)
        tokenResp == AuthClientValidateToken(tokenString, up)
    IN IF h = EmptyStr THEN Passed(<<>>)
       ELSE IF tokenString = h THEN Passed(<<>>)
       ELSE IF ~tokenResp.err /\ tokenResp.Valid
            THEN Passed(<<tokenResp.UserID, tokenResp.Email>>)
            ELSE Passed(<<>>)

\* a downstream request that keeps the inbound X-User-ID header
ForwardInboundHeader(userID, inbound) ==
    IF inbound # <<>> THEN inbound
    ELSE IF userID # "" THEN <<userID>> ELSE <<>>

\* PostClient.makePostRequest: the X-User-ID header of the request the
\* gateway sends downstream; the request is built anew, nothing of the
\* inbound request's headers is copied
makePostRequest(userID, inbound) ==
    IF userID # "" THEN <<userID>> ELSE <<>>

\* PostClient.makePublicRequest: no X-User-ID header
makePublicRequest == <<>>

\* what the gateway did with an inbound request
GatewayRecord(m, handler, xuid) ==
    [status |-> m.status, handler |-> handler, ctx |-> m.ctx, xuid |-> xuid]

\* a request on a protected post route (PostHandler.GetPost behind
\* AuthMiddleware): what the gateway does with it
ProtectedOutcome(h, x, up) ==
    LET m == AuthMiddleware(h, up)
        userIDStr == IF m.ctx # <<>> THEN m.ctx[1] ELSE ""
    IN GatewayRecord(m, ~m.abort, IF m.abort THEN <<>> ELSE makePostRequest(userIDStr, x))

ProtectedRoute(h, x, up) ==
    /\ last' = Answer("protected", 0, AuthMiddleware(h, up).code, FALSE,
                      <<ProtectedOutcome(h, x, up)>>)
    /\ UNCHANGED <<now, store, nextState, nextCode, hist, reqs, satellite>>

\* a request on a public post route (PostHandler.GetPostStats behind
\* OptionalAuthMiddleware): what the gateway does with it
PublicOutcome(h, up) ==
    LET m == OptionalAuthMiddleware(h, up)
    IN GatewayRecord(m, ~m.abort, makePublicRequest)

PublicRoute(h, up) ==
    /\ last' = Answer("public", 0, OptionalAuthMiddleware(h, up).code, FALSE,
                      <<PublicOutcome(h, up)>>)
    /\ UNCHANGED <<now, store, nextState, nextCode, hist, reqs, satellite>>

\* POST /auth/logout through the gateway (the auth service answering): the
\* bearer token passes the gate, the request body goes to the auth service
\* as it came, and the auth service logs out the token named in the body
GatewayLogout(h, body) ==
    LET m == AuthMiddleware(h, TRUE)
    IN IF m.abort
       THEN /\ last' = Answer("gwlogout", 0, m.code, FALSE,
                              <<GatewayRecord(m, FALSE, <<>>)>>)
            /\ UNCHANGED <<now, store, nextState, nextCode, hist, reqs, satellite>>
       ELSE Logout(body)

GatewayNext ==
    \/ GetGoogleAuthURL
    \/ \E s \in 0..MaxNonces, a \in ProviderAnswers : HandleGoogleCallback(s, a)
    \/ \E c \in 0..MaxNonces : ExchangeAuthCode(c)
    \/ \E h \in AuthHeaders, x \in ClientUserIDs, up \in BOOLEAN : ProtectedRoute(h, x, up)
    \/ \E h \in AuthHeaders, up \in BOOLEAN : PublicRoute(h, up)
    \/ \E h \in AuthHeaders, body \in Presentable : GatewayLogout(h, body)
    \/ Tick

SpecGateway == Init /\ [][GatewayNext]_vars

\* ------------------------------------------------------- the jwt codec
\* SpecCodec drives jwt.Manager alone: GenerateToken on any TokenClaims and
\* any ttl, ValidateToken on any string minted so far or forged.

\* entities.TokenClaims values, the ones AuthService never passes included
ClaimsValues == [UserID : {"u1", ""}, Email : {"a@b.com", ""}, Type : {"access", "refresh", "other"}]

\* ttl values handed to GenerateToken, in instants
MaxTTL == 2
\* strings minted in one behaviour of SpecCodec
MaxCodecTokens == 2

ErrParseToken == "failed to parse token"

ManagerGenerateToken(c, ttl) ==
    /\ Cardinality(issued) < MaxCodecTokens
    /\ LET tok == GenerateToken(c.UserID, c.Email, c.Type, ttl, now) IN
         /\ issued' = issued \cup {tok}
         /\ last' = Answer("generate", ttl, OK, FALSE, <<tok>>)
    /\ UNCHANGED <<now, store, nextState, nextCode, statePasses, stateCodes,
                   codeGrants, loggedOut, rotated, nSessionOps, reqs, satellite>>

ErrInvalidIssuer == "invalid token issuer"

\* the answer of Manager.ValidateToken: ParseWithClaims checks the
\* signature, exp and nbf; the issuer is compared afterwards
ManagerValidateResult(tok, t) ==
    IF ~(tok.sig /\ t < tok.exp /\ tok.iat <= t) THEN ErrParseToken
    ELSE IF tok.iss # issuer THEN ErrInvalidIssuer
    ELSE OK

ManagerValidateToken(tok) ==
    /\ last' = IF ManagerValidateResult(tok, now) = OK
               THEN Answer("verify", 0, OK, FALSE, <<tok, JwtClaims(tok)>>)
               ELSE Answer("verify", 0, ManagerValidateResult(tok, now), FALSE, <<tok>>)
    /\ UNCHANGED <<now, store, nextState, nextCode, hist, reqs, satellite>>

CodecNext ==
    \/ \E c \in ClaimsValues, ttl \in 0..MaxTTL : ManagerGenerateToken(c, ttl)
    \/ \E tok \in Presentable : ManagerValidateToken(tok)
    \/ Tick

SpecCodec == Init /\ [][CodecNext]_vars

\* SpecExpiry drives the same codec with the clock read in ticks of half a
\* second, so that a token can be generated and presented between two whole
\* seconds.  In SpecExpiry each element of issued is a minting: the string
\* with the instant and the ttl of the GenerateToken call that made it.
TicksPerSecond == 2

\* a NumericDate that keeps the fraction of the second
NumericDateExact(t) == t
\* jwt.NewNumericDate: the instant cut down to the whole second
NewNumericDate(t) == (t \div TicksPerSecond) * TicksPerSecond

\* GenerateToken at tick t: iat, nbf and exp are NumericDates
GenerateTokenAtTick(userID, email, typ, ttl, t) ==
    [UserID |-> userID, Email |-> email, Type |-> typ, iat |-> NewNumericDate(t),
     exp |-> NewNumericDate(t + ttl), iss |-> TokenIssuer, sig |-> TRUE]

Minting(tok, t, ttl) == [tok |-> tok, at |-> t, ttl |-> ttl]

ExpiryGenerateToken(c, ttl) ==
    /\ Cardinality(issued) < MaxCodecTokens
    /\ LET tok == GenerateTokenAtTick(c.UserID, c.Email, c.Type, ttl, now) IN
         /\ issued' = issued \cup {Minting(tok, now, ttl)}
         /\ last' = Answer("generate", ttl, OK, FALSE, <<tok>>)
    /\ UNCHANGED <<now, store, nextState, nextCode, statePasses, stateCodes,
                   codeGrants, loggedOut, rotated, nSessionOps, reqs, satellite>>

ExpiryValidateToken(m) ==
    /\ last' = IF JwtValid(m.tok, now)
               THEN Answer("verify", 0, OK, FALSE, <<m, JwtClaims(m.tok)>>)
               ELSE Answer("verify", 0, ErrParseToken, FALSE, <<m>>)
    /\ UNCHANGED <<now, store, nextState, nextCode, hist, reqs, satellite>>

ExpiryNext ==
    \/ \E c \in ClaimsValues, ttl \in 0..MaxTTL : ExpiryGenerateToken(c, ttl)
    \/ \E m \in issued : ExpiryValidateToken(m)
    \/ Tick

SpecExpiry == Init /\ [][ExpiryNext]_vars


\* -------------------------------------------------- configured issuer
\* SpecIssuer drives the codec of a Manager constructed with any of the
\* values JWT_ISSUER can be given; the other specifications construct it
\* with the default.
ConfigIssuers == {ConfigIssuer, "blog-auth"}

IssuerInit ==
    /\ now = 0
    /\ oauthStates = Empty
    /\ authCodes = Empty
    /\ accessTokens = Empty
    /\ refreshTokens = Empty
    /\ blacklist = Empty
    /\ nextState = 1
    /\ nextCode = 1
    /\ issued = {}
    /\ statePasses = [s \in 1..MaxNonces |-> 0]
    /\ stateCodes = [s \in 1..MaxNonces |-> 0]
    /\ codeGrants = [c \in 1..MaxNonces |-> 0]
    /\ loggedOut = {}
    /\ rotated = {}
    /\ nSessionOps = 0
    /\ last = Answer("init", 0, OK, FALSE, <<>>)
    /\ reqs = [p \in 1..MaxReqs |-> Idle]
    /\ issuer \in ConfigIssuers
    /\ maxRetries = DefaultMaxRetries
    /\ ConsumerConstructed
    /\ LimiterConstructed

SpecIssuer == IssuerInit /\ [][CodecNext]_vars

\* -------------------------------------------------------- store faults
\* SpecFault serves the requests one at a time against a store that may
\* fail the commands of a request: F is the set of repository calls of
\* the request that return an error.  A command that fails is not applied.

ErrTokenStorage == "TOKEN_STORAGE_FAILED"
ErrTokenValidation == "TOKEN_VALIDATION_FAILED"
ErrTokenDeletion == "TOKEN_DELETION_FAILED"

StatusOK == 200
StatusTemporaryRedirect == 307
StatusBadRequest == 400
StatusInternalServerError == 500
StatusServiceUnavailable == 503

\* AuthError.StatusCode of each error the service returns
StatusCode(res) ==
    IF res \in {ErrInvalidGoogleCode, ErrInvalidRefreshToken, ErrInvalidAccessToken,
                ErrTokenNotFound, ErrTokenBlacklisted} THEN StatusUnauthorized
    ELSE IF res = ErrInvalidTokenType THEN StatusBadRequest
    ELSE StatusInternalServerError

\* a handler that answers every failure with ErrServiceUnavailable
HttpStatusUnavailable(op, res) == IF res = OK THEN StatusOK ELSE StatusServiceUnavailable

\* the status the HTTP handler of operation op answers for the service's
\* result: GoogleCallback always redirects the browser, the others answer
\* ErrorResponse with the AuthError's own status
HttpStatus(op, res) ==
    IF op = "callback" THEN StatusTemporaryRedirect
    ELSE IF res = OK THEN StatusOK
    ELSE StatusCode(res)

\* a callback handler that sends every failure to the same error page
CallbackRedirectOpaque(res) == IF res = OK THEN "auth_code" ELSE "invalid_code"

\* GoogleCallback: the page the browser is redirected to
CallbackRedirect(res) ==
    IF res = OK THEN "auth_code"
    ELSE IF res = ErrInvalidGoogleCode THEN "invalid_code"
    ELSE "callback_failed"

\* the repository calls of each operation
StoreCalls(op) ==
    CASE op = "authurl"  -> {"StoreState"}
      [] op = "callback" -> {"GetAndDeleteState", "StoreAuthCode"}
      [] op = "exchange" -> {"GetAndDeleteAuthCode", "StoreAccessToken", "StoreRefreshToken"}
      [] op = "refresh"  -> {"GetTokenData", "IsTokenBlacklisted", "BlacklistToken",
                             "StoreAccessToken", "StoreRefreshToken"}
      [] op = "logout"   -> {"Keys", "GetDel", "BlacklistToken"}
      [] op = "validate" -> {"IsTokenBlacklisted", "GetTokenData"}

\* no call fails, or one call of the request fails.  A store that is down
\* for the whole request answers as the failure of the first call does.
FaultSets(op) == {{}} \cup {{c} : c \in StoreCalls(op)}

\* what the provider answers in SpecFault: an error, one complete verified
\* identity, one unverified identity
FaultProviderAnswers ==
    {a \in ProviderAnswers : a.err \/ a.info.ID \in {"u1", "u3"}}

\* the answer of a request: failed is the calls that ran and failed
FaultAnswer(op, k, res, idp, out, failed) ==
    Answer(op, [key |-> k, failed |-> failed], res, idp, out)

\* a storeTokens that writes the refresh entry first, then the access entry
FaultStoreTokensRefreshFirst(pair, u, F) ==
    /\ refreshTokens' = IF "StoreRefreshToken" \in F THEN refreshTokens
                        ELSE Put(refreshTokens, pair[2], StoredToken(u, RefreshTokenTTL))
    /\ accessTokens' = IF F \cap {"StoreAccessToken", "StoreRefreshToken"} # {} THEN accessTokens
                       ELSE Put(accessTokens, pair[1], StoredToken(u, AccessTokenTTL))

\* storeTokens under faults: the access entry first, then the refresh entry
FaultStoreTokens(pair, u, F) ==
    /\ accessTokens' = IF "StoreAccessToken" \in F THEN accessTokens
                       ELSE Put(accessTokens, pair[1], StoredToken(u, AccessTokenTTL))
    /\ refreshTokens' = IF F \cap {"StoreAccessToken", "StoreRefreshToken"} # {} THEN refreshTokens
                        ELSE Put(refreshTokens, pair[2], StoredToken(u, RefreshTokenTTL))

\* a rotation that gives up when the blacklist write fails
StoreTokensOrBlacklistFailed(F) ==
    IF "BlacklistToken" \in F THEN {"BlacklistToken"}
    ELSE IF "StoreAccessToken" \in F THEN {"StoreAccessToken"}
    ELSE F \cap {"StoreRefreshToken"}

\* the call of storeTokens that failed, if one did
StoreTokensFailed(F) ==
    IF "StoreAccessToken" \in F THEN {"StoreAccessToken"}
    ELSE F \cap {"StoreRefreshToken"}

FaultGetGoogleAuthURL(F) ==
    IF "StoreState" \in F
    THEN /\ last' = FaultAnswer("authurl", 0, ErrTokenStorage, FALSE, <<>>, {"StoreState"})
         /\ UNCHANGED <<now, store, nextState, nextCode, hist, reqs, satellite>>
    ELSE /\ nextState <= MaxNonces
         /\ oauthStates' = Put(oauthStates, nextState, [exp |-> now + StateTTL])
         /\ nextState' = nextState + 1
         /\ last' = FaultAnswer("authurl", nextState, OK, FALSE, <<nextState>>, {})
         /\ UNCHANGED <<now, authCodes, accessTokens, refreshTokens, blacklist,
                        nextCode, hist, reqs, satellite>>

FaultHandleGoogleCallback(s, a, F) ==
    IF "GetAndDeleteState" \in F \/ ~Found(oauthStates, s)
    THEN /\ last' = FaultAnswer("callback", s, ErrInvalidGoogleCode, FALSE, <<>>,
                                F \cap {"GetAndDeleteState"})
         /\ UNCHANGED <<now, store, nextState, nextCode, hist, reqs, satellite>>
    ELSE /\ oauthStates' = GetAndDeleteState(oauthStates, s)
         /\ statePasses' = [statePasses EXCEPT ![s] = @ + 1]
         /\ IF a.err \/ ~IsValid(a.info)
            THEN /\ last' = FaultAnswer("callback", s, ErrInvalidGoogleCode, TRUE,
                                        IF a.err THEN <<>> ELSE <<a.info>>, {})
                 /\ UNCHANGED <<authCodes, nextCode, stateCodes>>
            ELSE IF "StoreAuthCode" \in F
            THEN /\ last' = FaultAnswer("callback", s, ErrTokenStorage, TRUE, <<>>,
                                        {"StoreAuthCode"})
                 /\ UNCHANGED <<authCodes, nextCode, stateCodes>>
            ELSE /\ nextCode <= MaxNonces
                 /\ authCodes' = Put(authCodes, nextCode,
                                     [info |-> a.info, exp |-> now + AuthCodeTTL])
                 /\ nextCode' = nextCode + 1
                 /\ stateCodes' = [stateCodes EXCEPT ![s] = @ + 1]
                 /\ last' = FaultAnswer("callback", s, OK, TRUE, <<nextCode>>, {})
         /\ UNCHANGED <<now, accessTokens, refreshTokens, blacklist, nextState,
                        issued, codeGrants, loggedOut, rotated, nSessionOps, reqs, satellite>>

FaultExchangeAuthCode(c, F) ==
    IF "GetAndDeleteAuthCode" \in F \/ ~Found(authCodes, c)
    THEN /\ last' = FaultAnswer("exchange", c, ErrInvalidGoogleCode, FALSE, <<>>,
                                F \cap {"GetAndDeleteAuthCode"})
         /\ UNCHANGED <<now, store, nextState, nextCode, hist, reqs, satellite>>
    ELSE LET u == authCodes[c].info
             pair == generateTokenPair(u)
             failed == StoreTokensFailed(F)
         IN /\ authCodes' = GetAndDeleteAuthCode(authCodes, c)
            /\ FaultStoreTokens(pair, u, F)
            /\ IF failed # {}
               THEN /\ last' = FaultAnswer("exchange", c, ErrTokenStorage, FALSE, <<>>, failed)
                    /\ UNCHANGED <<issued, codeGrants>>
               ELSE /\ issued' = issued \cup {pair[1], pair[2]}
                    /\ codeGrants' = [codeGrants EXCEPT ![c] = @ + 1]
                    /\ last' = FaultAnswer("exchange", c, OK, FALSE, pair, {})
            /\ UNCHANGED <<now, oauthStates, blacklist, nextState, nextCode,
                           statePasses, stateCodes, loggedOut, rotated, nSessionOps, reqs, satellite>>

\* the answer of RefreshToken(tok) up to and including the blacklist check
FaultRefreshTokenResult(tok, F) ==
    IF ~JwtValid(tok, now) THEN ErrInvalidRefreshToken
    ELSE IF tok.Type # "refresh" THEN ErrInvalidTokenType
    ELSE IF "GetTokenData" \in F \/ ~HasTokenData(tok) THEN ErrTokenNotFound
    ELSE IF "IsTokenBlacklisted" \in F THEN ErrTokenValidation
    ELSE IF IsTokenBlacklisted(tok) THEN ErrTokenBlacklisted
    ELSE OK

FaultRefreshToken(tok, F) ==
    LET res == FaultRefreshTokenResult(tok, F) IN
    IF res # OK
    THEN /\ last' = FaultAnswer("refresh", 0, res, FALSE, <<tok>>,
                       IF res = ErrTokenNotFound THEN F \cap {"GetTokenData"}
                       ELSE IF res = ErrTokenValidation THEN {"IsTokenBlacklisted"}
                       ELSE {})
         /\ UNCHANGED <<now, store, nextState, nextCode, hist, reqs, satellite>>
    ELSE LET st == GetTokenData(tok)
             u == UserInfo(st.UserID, st.Email, FALSE)
             pair == generateTokenPair(u)
             failed == StoreTokensFailed(F)
         IN /\ nSessionOps < MaxSessionOps
            /\ nSessionOps' = nSessionOps + 1
            /\ blacklist' = IF "BlacklistToken" \in F THEN blacklist
                            ELSE BlacklistToken(blacklist, tok, RefreshTokenTTL)
            /\ FaultStoreTokens(pair, u, F)
            /\ IF failed # {}
               THEN /\ last' = FaultAnswer("refresh", 0, ErrTokenStorage, FALSE, <<tok>>,
                                           failed \cup (F \cap {"BlacklistToken"}))
                    /\ UNCHANGED <<issued, rotated>>
               ELSE /\ issued' = issued \cup {pair[1], pair[2]}
                    /\ rotated' = rotated \cup {tok}
                    /\ last' = FaultAnswer("refresh", 0, OK, FALSE, <<tok, pair[1], pair[2]>>,
                                           F \cap {"BlacklistToken"})
            /\ UNCHANGED <<now, oauthStates, authCodes, nextState, nextCode,
                           statePasses, stateCodes, codeGrants, loggedOut, reqs, satellite>>

\* Logout: an error of KEYS aborts it; errors of the GET and DEL of the
\* scanned keys and of the blacklist write are passed over
FaultLogout(tok, F) ==
    IF ~JwtValid(tok, now)
    THEN /\ last' = FaultAnswer("logout", 0, ErrInvalidAccessToken, FALSE, <<tok>>, {})
         /\ UNCHANGED <<now, store, nextState, nextCode, hist, reqs, satellite>>
    ELSE IF "Keys" \in F
    THEN /\ last' = FaultAnswer("logout", 0, ErrTokenDeletion, FALSE, <<tok>>, {"Keys"})
         /\ UNCHANGED <<now, store, nextState, nextCode, hist, reqs, satellite>>
    ELSE /\ nSessionOps < MaxSessionOps
         /\ nSessionOps' = nSessionOps + 1
         /\ accessTokens' = IF "GetDel" \in F THEN accessTokens
                            ELSE DeleteUserTokens(accessTokens, tok.UserID)
         /\ refreshTokens' = IF "GetDel" \in F THEN refreshTokens
                             ELSE DeleteUserTokens(refreshTokens, tok.UserID)
         /\ blacklist' = IF "BlacklistToken" \in F THEN blacklist
                         ELSE BlacklistToken(blacklist, tok, AccessTokenTTL)
         /\ loggedOut' = IF "GetDel" \in F THEN loggedOut
                         ELSE loggedOut \cup {t \in issued : t.UserID = tok.UserID}
         /\ last' = FaultAnswer("logout", 0, OK, FALSE, <<tok>>, F)
         /\ UNCHANGED <<now, oauthStates, authCodes, nextState, nextCode,
                        issued, statePasses, stateCodes, codeGrants, rotated, reqs, satellite>>

FaultValidateTokenResult(tok, F) ==
    IF "IsTokenBlacklisted" \in F THEN ErrTokenValidation
    ELSE IF IsTokenBlacklisted(tok) THEN ErrTokenBlacklisted
    ELSE IF ~JwtValid(tok, now) THEN ErrInvalidAccessToken
    ELSE IF tok.Type # "access" THEN ErrInvalidTokenType
    ELSE IF "GetTokenData" \in F \/ ~HasTokenData(tok) THEN ErrTokenNotFound
    ELSE OK

FaultValidateToken(tok, F) ==
    LET res == FaultValidateTokenResult(tok, F) IN
    /\ last' = FaultAnswer("validate", 0, res, FALSE, <<>>,
                  IF res = ErrTokenValidation THEN {"IsTokenBlacklisted"}
                  ELSE IF res = ErrTokenNotFound THEN F \cap {"GetTokenData"}
                  ELSE {})
    /\ UNCHANGED <<now, store, nextState, nextCode, hist, reqs, satellite>>

\* instants of SpecFault
MaxFaultTime == 1

\* the clock moves on as in Tick; the answer carries no failed call
FaultTick ==
    /\ now < MaxFaultTime
    /\ now' = now + 1
    /\ oauthStates' = Live(oauthStates, now + 1)
    /\ authCodes' = Live(authCodes, now + 1)
    /\ accessTokens' = Live(accessTokens, now + 1)
    /\ refreshTokens' = Live(refreshTokens, now + 1)
    /\ blacklist' = Live(blacklist, now + 1)
    /\ last' = FaultAnswer("tick", 0, OK, FALSE, <<>>, {})
    /\ UNCHANGED <<nextState, nextCode, hist, reqs, satellite>>

FaultInit ==
    /\ now = 0
    /\ oauthStates = Empty
    /\ authCodes = Empty
    /\ accessTokens = Empty
    /\ refreshTokens = Empty
    /\ blacklist = Empty
    /\ nextState = 1
    /\ nextCode = 1
    /\ issued = {}
    /\ statePasses = [s \in 1..MaxNonces |-> 0]
    /\ stateCodes = [s \in 1..MaxNonces |-> 0]
    /\ codeGrants = [c \in 1..MaxNonces |-> 0]
    /\ loggedOut = {}
    /\ rotated = {}
    /\ nSessionOps = 0
    /\ last = FaultAnswer("init", 0, OK, FALSE, <<>>, {})
    /\ reqs = [p \in 1..MaxReqs |-> Idle]
    /\ SatelliteInit

FaultNext ==
    \/ \E F \in FaultSets("authurl") : FaultGetGoogleAuthURL(F)
    \/ \E s \in 0..MaxNonces, a \in FaultProviderAnswers, F \in FaultSets("callback") :
         FaultHandleGoogleCallback(s, a, F)
    \/ \E c \in 0..MaxNonces, F \in FaultSets("exchange") : FaultExchangeAuthCode(c, F)
    \/ \E tok \in Presentable, F \in FaultSets("refresh") : FaultRefreshToken(tok, F)
    \/ \E tok \in Presentable, F \in FaultSets("logout") : FaultLogout(tok, F)
    \/ \E tok \in Presentable, F \in FaultSets("validate") : FaultValidateToken(tok, F)
    \/ FaultTick

SpecFault == FaultInit /\ [][FaultNext]_vars

\* ------------------------------------------- RefreshToken in flight
\* SpecRefresh runs RefreshToken requests concurrently with each other and
\* with the other operations: the reads of a request (verification, record
\* lookup, blacklist check) are one step, and what follows them (minting,
\* the blacklist write, the two stores) is a later step.

\* one complete verified identity signs in
RefreshProviderAnswers == {a \in ProviderAnswers : ~a.err /\ a.info.ID = "u1" /\ IsValid(a.info)}

\* request p: RefreshToken(tok) up to and including the blacklist check
RefreshCheck(p, tok) ==
    /\ reqs[p].pc = "idle"
    /\ LET res == RefreshTokenResult(tok) IN
       IF res # OK
       THEN /\ last' = Answer("refresh", 0, res, FALSE, <<>>)
            /\ UNCHANGED <<reqs, satellite>>
       ELSE LET st == GetTokenData(tok) IN
            /\ UNCHANGED satellite
            /\ reqs' = [reqs EXCEPT ![p] =
                         [pc |-> "mint", op |-> "refresh", key |-> tok, got |-> TRUE,
                          info |-> UserInfo(st.UserID, st.Email, FALSE)]]
            /\ UNCHANGED last
    /\ UNCHANGED <<now, store, nextState, nextCode, hist>>

\* request p: the rest of RefreshToken, with the record read by the check
RefreshWrite(p) ==
    /\ reqs[p].pc = "mint" /\ reqs[p].op = "refresh"
    /\ nSessionOps < MaxSessionOps
    /\ LET tok == reqs[p].key
           u == reqs[p].info
           pair == generateTokenPair(u)
       IN /\ nSessionOps' = nSessionOps + 1
          /\ blacklist' = BlacklistToken(blacklist, tok, RefreshTokenTTL)
          /\ storeTokens(pair, u)
          /\ issued' = issued \cup {pair[1], pair[2]}
          /\ rotated' = rotated \cup {tok}
          /\ last' = Answer("refresh", 0, OK, FALSE, pair)
    /\ UNCHANGED satellite
    /\ reqs' = [reqs EXCEPT ![p] = Idle]
    /\ UNCHANGED <<now, oauthStates, authCodes, nextState, nextCode,
                   statePasses, stateCodes, codeGrants, loggedOut>>

RefreshNext ==
    \/ GetGoogleAuthURL
    \/ \E s \in 1..MaxNonces, a \in RefreshProviderAnswers : HandleGoogleCallback(s, a)
    \/ \E c \in 1..MaxNonces : ExchangeAuthCode(c)
    \/ \E p \in 1..MaxReqs, tok \in Presentable : RefreshCheck(p, tok)
    \/ \E p \in 1..MaxReqs : RefreshWrite(p)
    \/ \E tok \in Presentable : Logout(tok)
    \/ \E tok \in Presentable : ValidateToken(tok)
    \/ Tick

SpecRefresh == Init /\ [][RefreshNext]_vars

\* ----------------------------------------- notification consumer
\* SpecConsumer runs the goroutine StartConsuming starts: it takes the
\* deliveries one after the other and runs processMessages on each.  The
\* position inside processMessages is consumer.pc; settled counts, per
\* delivery, the handler calls made and the Acks and Rejects issued.

\* the auth service as constructed, which SpecConsumer and SpecLimiter
\* leave alone
AuthConstructed ==
    /\ now = 0
    /\ oauthStates = Empty
    /\ authCodes = Empty
    /\ accessTokens = Empty
    /\ refreshTokens = Empty
    /\ blacklist = Empty
    /\ nextState = 1
    /\ nextCode = 1
    /\ issued = {}
    /\ statePasses = [s \in 1..MaxNonces |-> 0]
    /\ stateCodes = [s \in 1..MaxNonces |-> 0]
    /\ codeGrants = [c \in 1..MaxNonces |-> 0]
    /\ loggedOut = {}
    /\ rotated = {}
    /\ nSessionOps = 0
    /\ last = Answer("init", 0, OK, FALSE, <<>>)
    /\ reqs = [p \in 1..MaxReqs |-> Idle]
    /\ issuer = ConfigIssuer

\* values RABBITMQ_MAX_RETRIES is given in SpecConsumer
MaxConfigRetries == 2
MaxRetriesValues == -1..MaxConfigRetries

ErrHandler == "message processing failed"
ErrSettle == "failed to settle message"

\* for d := range msgs: the next delivery enters processMessages
ConsumerReceive(d) ==
    /\ consumer.pc = "idle"
    /\ d \in 1..MaxDeliveries
    /\ ~settled[d].returned
    /\ \A e \in 1..(d - 1) : settled[e].returned
    /\ consumer' = [pc |-> "loop", d |-> d, retries |-> 0]
    /\ last' = Answer("deliver", d, OK, FALSE, <<>>)
    /\ UNCHANGED <<now, store, nextState, nextCode, hist, reqs,
                   issuer, maxRetries, settled, counters, tokens>>

\* a loop body that acknowledges a success and goes on to the next attempt
ConsumerAttemptNoReturn(handled, sent) ==
    /\ consumer.pc = "loop"
    /\ consumer.retries <= maxRetries
    /\ LET d == consumer.d IN
       /\ settled' = [settled EXCEPT ![d] =
                        [@ EXCEPT !.calls = @ + 1,
                                  !.ok = @ \/ handled,
                                  !.acks = IF handled THEN @ + 1 ELSE @]]
       /\ consumer' = [consumer EXCEPT !.retries = @ + 1]
       /\ last' = Answer("handle", d,
                         IF ~handled THEN ErrHandler ELSE IF sent THEN OK ELSE ErrSettle,
                         FALSE, <<>>)
    /\ UNCHANGED <<now, store, nextState, nextCode, hist, reqs,
                   issuer, maxRetries, counters, tokens>>

\* one pass of the loop of processMessages: the handler is called; on
\* success the delivery is acknowledged (an error of Ack is only logged)
\* and processMessages returns, on failure retries goes up
ConsumerAttempt(handled, sent) ==
    /\ consumer.pc = "loop"
    /\ consumer.retries <= maxRetries
    /\ LET d == consumer.d IN
       IF handled
       THEN /\ settled' = [settled EXCEPT ![d] =
                             [@ EXCEPT !.calls = @ + 1, !.ok = TRUE,
                                       !.acks = @ + 1, !.returned = TRUE]]
            /\ consumer' = ConsumerIdle
            /\ last' = Answer("handle", d, IF sent THEN OK ELSE ErrSettle, FALSE, <<>>)
       ELSE /\ settled' = [settled EXCEPT ![d].calls = @ + 1]
            /\ consumer' = [consumer EXCEPT !.retries = @ + 1]
            /\ last' = Answer("handle", d, ErrHandler, FALSE, <<>>)
    /\ UNCHANGED <<now, store, nextState, nextCode, hist, reqs,
                   issuer, maxRetries, counters, tokens>>

\* the loop is over without a success: Reject(false), an error of which is
\* only logged, and processMessages returns
ConsumerReject(sent) ==
    /\ consumer.pc = "loop"
    /\ consumer.retries > maxRetries
    /\ LET d == consumer.d IN
       /\ settled' = [settled EXCEPT ![d] =
                        [@ EXCEPT !.rejects = @ + 1, !.returned = TRUE]]
       /\ last' = Answer("reject", d, IF sent THEN OK ELSE ErrSettle, FALSE, <<>>)
    /\ consumer' = ConsumerIdle
    /\ UNCHANGED <<now, store, nextState, nextCode, hist, reqs,
                   issuer, maxRetries, counters, tokens>>

ConsumerInit ==
    /\ AuthConstructed
    /\ maxRetries \in MaxRetriesValues
    /\ ConsumerConstructed
    /\ LimiterConstructed

\* the steps of processMessages, which the goroutine takes without waiting
\* for anything but the handler's return
processMessages ==
    \/ \E handled \in BOOLEAN, sent \in BOOLEAN : ConsumerAttempt(handled, sent)
    \/ \E sent \in BOOLEAN : ConsumerReject(sent)

ConsumerNext ==
    \/ \E d \in 1..MaxDeliveries : ConsumerReceive(d)
    \/ \E handled \in BOOLEAN, sent \in BOOLEAN : ConsumerAttempt(handled, sent)
    \/ \E sent \in BOOLEAN : ConsumerReject(sent)

SpecConsumer == ConsumerInit /\ [][ConsumerNext]_vars /\ WF_vars(processMessages)

\* ------------------------------------------------- gateway rate limit
\* SpecLimiter serves requests of two clients through the RateLimit
\* middleware.  counters is the rate_limit:* keyspace of the gateway's
\* Redis: the count INCR left and the instant the key expires, NoExpiry
\* for a key that has no TTL.  F is the set of Redis calls of the request
\* that return an error; a command that fails is not applied.
Clients == {"c1", "c2"}
RequestsPerMinute == 2
RateLimitWindow == 2
StatusTooManyRequests == 429
NoExpiry == -1
MaxCount == 4

\* what is left of the counter keys at time t
LiveCounters(f, t) ==
    [x \in {k \in DOMAIN f : f[k].exp = NoExpiry \/ f[k].exp > t} |-> f[x]]

\* INCR key: a missing key is created at 1 without a TTL, an existing key
\* keeps its TTL
Incr(f, k) ==
    IF k \in DOMAIN f THEN [f EXCEPT ![k].count = @ + 1]
    ELSE Put(f, k, [count |-> 1, exp |-> NoExpiry])

\* EXPIRE key ttl
Expire(f, k, ttl) == [f EXCEPT ![k].exp = now + ttl]

\* checkRateLimit: the keyspace it leaves
checkRateLimitStore(k, F) ==
    IF "Incr" \in F THEN counters
    ELSE IF Incr(counters, k)[k].count = 1 /\ "Expire" \notin F
    THEN Expire(Incr(counters, k), k, RateLimitWindow)
    ELSE Incr(counters, k)

\* checkRateLimit: "error", "allowed" or "refused"
checkRateLimit(k, F) ==
    IF "Incr" \in F THEN "error"
    ELSE IF Incr(counters, k)[k].count = 1 /\ "Expire" \in F THEN "error"
    ELSE IF Incr(counters, k)[k].count <= RequestsPerMinute THEN "allowed"
    ELSE "refused"

\* the RateLimit middleware for one request of client k: on an error of
\* checkRateLimit the in-memory limiter decides
RateLimit(k, F) ==
    /\ k \in DOMAIN counters => counters[k].count < MaxCount
    /\ counters' = checkRateLimitStore(k, F)
    /\ LET res == checkRateLimit(k, F) IN
       /\ tokens' = IF res = "error" /\ tokens > 0 THEN tokens - 1 ELSE tokens
       /\ last' = Answer("request", k,
                         IF res = "allowed" \/ (res = "error" /\ tokens > 0)
                         THEN StatusOK ELSE StatusTooManyRequests,
                         FALSE, <<res>>)
    /\ UNCHANGED <<now, store, nextState, nextCode, hist, reqs,
                   issuer, maxRetries, consumer, settled>>

\* the clock moves on: Redis drops the counter keys whose TTL has run out,
\* the in-memory limiter gains the token of one interval
LimiterTick ==
    /\ now < MaxTime
    /\ now' = now + 1
    /\ counters' = LiveCounters(counters, now + 1)
    /\ tokens' = IF tokens < BurstSize THEN tokens + 1 ELSE tokens
    /\ last' = Answer("tick", 0, OK, FALSE, <<>>)
    /\ UNCHANGED <<store, nextState, nextCode, hist, reqs,
                   issuer, maxRetries, consumer, settled>>

LimiterInit ==
    /\ AuthConstructed
    /\ maxRetries = DefaultMaxRetries
    /\ ConsumerConstructed
    /\ LimiterConstructed

LimiterNext ==
    \/ \E k \in Clients, F \in {{}, {"Incr"}, {"Expire"}} : RateLimit(k, F)
    \/ LimiterTick

SpecLimiter == LimiterInit /\ [][LimiterNext]_vars

\* ------------------------------------------------------------- claims
TakenCodes == {c \in 1..MaxNonces : codeGrants[c] > 0}
UsedStates == {s \in 1..MaxNonces : stateCodes[s] > 0}

\* C1: an ExchangeAuthCode call for an exchange code that an earlier call
\* has taken answers InvalidGoogleCode and stores no tokens.
C1_SingleUseExchangeCode ==
    [][(last'.op = "exchange" /\ last'.arg \in TakenCodes)
         => (/\ last'.res = ErrInvalidGoogleCode
             /\ UNCHANGED <<accessTokens, refreshTokens, issued, codeGrants>>)]_vars

C1_Witness ==
    /\ last.op = "exchange"
    /\ last.res = ErrInvalidGoogleCode
    /\ last.arg \in TakenCodes

\* C2: a HandleGoogleCallback call for a state that an earlier successful
\* callback has consumed answers InvalidGoogleCode, does not call the
\* identity provider and creates no exchange code.
C2_SingleUseState ==
    [][(last'.op = "callback" /\ last'.arg \in UsedStates)
         => (/\ last'.res = ErrInvalidGoogleCode
             /\ ~last'.idp
             /\ UNCHANGED <<authCodes, nextCode, stateCodes>>)]_vars

C2_Witness ==
    /\ last.op = "callback"
    /\ last.res = ErrInvalidGoogleCode
    /\ last.arg \in UsedStates

\* C3: among concurrent ExchangeAuthCode requests for one exchange code at
\* most one obtains the identity, and at most one token pair is issued for
\* the code.
C3_AtomicExchangeTake == \A c \in 1..MaxNonces : codeGrants[c] <= 1

\* C4: among concurrent HandleGoogleCallback requests for one state at most
\* one passes the state check, and at most one exchange code is minted for
\* the state.
C4_AtomicStateTake ==
    \A s \in 1..MaxNonces : statePasses[s] <= 1 /\ stateCodes[s] <= 1

\* C5: once RefreshToken(r1) has succeeded, RefreshToken(r1) answers
\* TokenBlacklisted or TokenNotFound for as long as r1 verifies.
C5_RotationInvalidation ==
    \A r \in rotated :
        JwtValid(r, now) => RefreshTokenResult(r) \in {ErrTokenBlacklisted, ErrTokenNotFound}

\* C6: once Logout has succeeded for a subject, no token issued for that
\* subject before the logout passes ValidateToken or RefreshToken.
C6_LogoutBreadth ==
    \A t \in loggedOut : ValidateTokenResult(t) # OK /\ RefreshTokenResult(t) # OK

\* C7: a token with a blacklist entry passes neither ValidateToken nor
\* RefreshToken, whatever its signature, expiry and StoredToken record.
C7_BlacklistedNeverAccepted ==
    \A t \in Presentable :
        IsTokenBlacklisted(t) => ValidateTokenResult(t) # OK /\ RefreshTokenResult(t) # OK

C7_Witness ==
    \E t \in issued : IsTokenBlacklisted(t) /\ JwtValid(t, now) /\ HasTokenData(t)

\* C8 as claimed: a token that verifies and has no StoredToken record fails
\* ValidateToken, and fails RefreshToken with TokenNotFound.
C8_NoRecordAsClaimed ==
    \A t \in Presentable :
        (JwtValid(t, now) /\ ~HasTokenData(t))
          => (ValidateTokenResult(t) # OK /\ RefreshTokenResult(t) = ErrTokenNotFound)

\* C8 amended: a token that verifies and has no StoredToken record fails
\* ValidateToken, and fails RefreshToken: with TokenNotFound when its class
\* is refresh, with InvalidTokenType when its class is access.
C8_NoRecordNeverAccepted ==
    \A t \in Presentable :
        (JwtValid(t, now) /\ ~HasTokenData(t))
          => (/\ ValidateTokenResult(t) # OK
              /\ RefreshTokenResult(t) =
                   IF t.Type = "refresh" THEN ErrTokenNotFound ELSE ErrInvalidTokenType)

C8_Witness ==
    /\ \E t \in issued : JwtValid(t, now) /\ ~HasTokenData(t) /\ t.Type = "refresh"
    /\ \E t \in issued : JwtValid(t, now) /\ ~HasTokenData(t) /\ t.Type = "access"
                         /\ ~IsTokenBlacklisted(t)

\* C9: ValidateToken succeeds exactly when the token is not blacklisted,
\* verifies, has class access and has a StoredToken record; otherwise the
\* error is that of the first failing check in this order; on success the
\* user id and email returned are those of the token's claims.
C9_ValidateOrder ==
    \A t \in Presentable :
        LET res == ValidateTokenResult(t)
            bl == t \in DOMAIN blacklist
            crypto == JwtValid(t, now)
            access == t.Type = "access"
            record == t \in DOMAIN accessTokens \/ t \in DOMAIN refreshTokens
        IN /\ (res = OK) <=> (~bl /\ crypto /\ access /\ record)
           /\ bl => res = ErrTokenBlacklisted
           /\ (~bl /\ ~crypto) => res = ErrInvalidAccessToken
           /\ (~bl /\ crypto /\ ~access) => res = ErrInvalidTokenType
           /\ (~bl /\ crypto /\ access /\ ~record) => res = ErrTokenNotFound
           /\ res = OK => ValidateTokenResponse(t) = <<t.UserID, t.Email>>

\* a token failing the blacklist, the class and the record check at once
\* has been presented and answered
C9_Witness ==
    /\ \E t \in issued : /\ IsTokenBlacklisted(t)
                         /\ t.Type = "refresh"
                         /\ ~HasTokenData(t)
    /\ \E t \in issued : IsTokenBlacklisted(t) /\ ~JwtValid(t, now)
    /\ last.op = "validate"
    /\ last.res = ErrTokenBlacklisted

\* C10 as claimed: RefreshToken answers InvalidTokenType for every access
\* token and ValidateToken answers InvalidTokenType for every refresh token.
C10_ClassesAsClaimed ==
    \A t \in issued :
        /\ t.Type = "access" => RefreshTokenResult(t) = ErrInvalidTokenType
        /\ t.Type = "refresh" => ValidateTokenResult(t) = ErrInvalidTokenType

\* C10 amended: RefreshToken never succeeds on an access token and
\* ValidateToken never succeeds on a refresh token; the answer is
\* InvalidTokenType whenever the token verifies and, for ValidateToken, is
\* not blacklisted (otherwise it is the error of the earlier check); such a
\* call changes nothing in the store.
C10_ClassesNotInterchangeable ==
    /\ [](\A t \in Presentable :
            /\ t.Type = "access" =>
                 /\ RefreshTokenResult(t) # OK
                 /\ JwtValid(t, now) => RefreshTokenResult(t) = ErrInvalidTokenType
            /\ t.Type = "refresh" =>
                 /\ ValidateTokenResult(t) # OK
                 /\ (JwtValid(t, now) /\ ~IsTokenBlacklisted(t))
                      => ValidateTokenResult(t) = ErrInvalidTokenType)
    /\ [][\A t \in Presentable :
            (\/ t.Type = "access" /\ RefreshToken(t)
             \/ t.Type = "refresh" /\ ValidateToken(t))
              => UNCHANGED <<store, issued>>]_vars

C10_Witness ==
    /\ last.op = "refresh"
    /\ last.res = ErrInvalidTokenType
    /\ \E t \in issued : t.Type = "refresh" /\ IsTokenBlacklisted(t)

\* C11: a successful RefreshToken(r1) returns a pair (a2, r2) where r2 is
\* not the string r1, and right after the call ValidateToken(a2) and
\* RefreshToken(r2) succeed.
C11_FreshUsablePair ==
    [][\A r1 \in Presentable : \A a2, r2 \in issued' :
          (RefreshToken(r1) /\ last'.res = OK /\ last'.out = <<a2, r2>>)
            => (/\ r2 # r1
                /\ ValidateTokenResult(a2)' = OK
                /\ RefreshTokenResult(r2)' = OK)]_vars

\* C12: when ExchangeAuthCode(e) returns the pair (A, R) for the exchange
\* code that a callback minted for an identity, ValidateToken(A) then
\* answers valid with the id and the email of that identity.
C12_HappyPath ==
    [][\A e \in 1..MaxNonces : \A A \in issued' :
          (ExchangeAuthCode(e) /\ last'.res = OK /\ last'.out[1] = A)
            => (/\ ValidateTokenResult(A)' = OK
                /\ ValidateTokenResponse(A) =
                     <<authCodes[e].info.ID, authCodes[e].info.Email>>)]_vars

\* C13: a HandleGoogleCallback call whose state has no stored entry (never
\* issued, already taken, or expired) answers InvalidGoogleCode, does not
\* call the identity provider and stores no exchange code.
C13_CsrfBinding ==
    [][(last'.op = "callback" /\ last'.arg \notin DOMAIN oauthStates)
         => (/\ last'.res = ErrInvalidGoogleCode
             /\ ~last'.idp
             /\ UNCHANGED <<authCodes, nextCode, stateCodes, statePasses>>)]_vars

\* an issued state that no callback ever presented in time has expired, then
\* been presented and refused
C13_Witness ==
    /\ last.op = "callback"
    /\ last.res = ErrInvalidGoogleCode
    /\ ~last.idp
    /\ last.arg \in 1..(nextState - 1)
    /\ statePasses[last.arg] = 0
    /\ now >= StateTTL

\* C14: when the identity provider returns an identity with an unverified
\* email, an empty id or an empty email, HandleGoogleCallback fails although
\* the state is right, and stores no exchange code; so every pending
\* exchange code holds a complete verified identity and no StoredToken
\* names an empty id, an empty email or the subject that is only ever
\* returned unverified.
C14_InvalidIdentityNoSession ==
    /\ [](/\ \A c \in DOMAIN authCodes :
               LET u == authCodes[c].info
               IN u.ID # "" /\ u.Email # "" /\ u.VerifiedEmail
          /\ \A f \in {accessTokens, refreshTokens} : \A t \in DOMAIN f :
               f[t].UserID \notin {"", "u3"} /\ f[t].Email # "")
    /\ [][\A s \in 1..MaxNonces : \A a \in ProviderAnswers :
            (/\ HandleGoogleCallback(s, a)
             /\ s \in DOMAIN oauthStates
             /\ ~a.err
             /\ (a.info.ID = "" \/ a.info.Email = "" \/ ~a.info.VerifiedEmail))
              => (/\ last'.res = ErrInvalidGoogleCode
                  /\ UNCHANGED <<authCodes, nextCode, stateCodes>>
                  /\ UNCHANGED <<accessTokens, refreshTokens, issued>>)]_vars

\* the provider was asked with a good state, returned an unverified
\* identity, and the callback was refused
C14_Witness ==
    /\ last.op = "callback"
    /\ last.res = ErrInvalidGoogleCode
    /\ last.idp
    /\ last.out # <<>>
    /\ ~last.out[1].VerifiedEmail /\ last.out[1].ID = "u3"
    /\ statePasses[last.arg] = 1
    /\ stateCodes[last.arg] = 0

\* the bearer token of h is one the auth service validates when asked
ValidBearer(h, up) ==
    /\ up
    /\ h.scheme = "Bearer "
    /\ h.cred # <<>>
    /\ ValidateTokenResult(h.cred[1]) = OK

\* C15: on a protected route the handler runs only when the request carried
\* a Bearer token that the auth service validated; in every other case
\* (no header, not of Bearer form, validation failed or unanswered) the gate
\* answers 401 and neither the handler nor a downstream request follows.
C15_MandatoryGate ==
    \A h \in AuthHeaders, x \in ClientUserIDs, up \in BOOLEAN :
        LET g == ProtectedOutcome(h, x, up)
        IN /\ g.handler <=> ValidBearer(h, up)
           /\ ~g.handler => (g.status = StatusUnauthorized /\ g.xuid = <<>>)

\* a Bearer token was refused by the gate while a token that verifies but
\* the auth service no longer accepts (logged out) exists
C15_Witness ==
    /\ last.op = "protected"
    /\ last.res = "INVALID_TOKEN"
    /\ ~last.out[1].handler
    /\ last.out[1].status = StatusUnauthorized
    /\ \E t \in issued : t.Type = "access" /\ JwtValid(t, now) /\ ValidateTokenResult(t) # OK

\* C16: on a public route the handler always runs, and the request context
\* carries a user id exactly when the request had a Bearer token that the
\* auth service validated; the id is that of the token's subject.
C16_OptionalGate ==
    \A h \in AuthHeaders, up \in BOOLEAN :
        LET g == PublicOutcome(h, up)
        IN /\ g.handler
           /\ g.status # StatusUnauthorized
           /\ (g.ctx # <<>>) <=> ValidBearer(h, up)
           /\ g.ctx # <<>> => g.ctx[1] = h.cred[1].UserID

\* a public request went through with an identity attached
C16_Witness ==
    /\ last.op = "public"
    /\ last.out[1].handler
    /\ last.out[1].ctx # <<>>

C18_LogoutOwnSubject ==
    [][(last'.op = "logout" /\ last'.res = OK) =>
        \A h \in AuthHeaders, body \in Presentable :
          GatewayLogout(h, body)
            => \A f \in {accessTokens, refreshTokens} : \A k \in DOMAIN f :
                 (f[k].UserID # h.cred[1].UserID)
                   => (k \in DOMAIN accessTokens' \/ k \in DOMAIN refreshTokens')]_vars

\* what a successful Logout(t) does to the StoredToken entries, the pending
\* states and the pending exchange codes: the entries of t's subject go,
\* everything else stays as it was
LogoutFrame(t) ==
    /\ \A f \in {<<accessTokens, accessTokens'>>, <<refreshTokens, refreshTokens'>>} :
         /\ DOMAIN f[2] = {k \in DOMAIN f[1] : f[1][k].UserID # t.UserID}
         /\ \A k \in DOMAIN f[2] : f[2][k] = f[1][k]
    /\ UNCHANGED <<oauthStates, authCodes>>

ClaimsOf(tok) == [UserID |-> tok.UserID, Email |-> tok.Email, Type |-> tok.Type]

\* ValidateToken on GenerateToken(c, ttl), both at instant t, returns c
RoundTrip(c, ttl, t) ==
    LET tok == GenerateToken(c.UserID, c.Email, c.Type, ttl, t) IN
      JwtValid(tok, t) /\ JwtClaims(tok) = c

\* the last call was ValidateToken on a string GenerateToken made in this
\* very instant with a ttl of at least minTTL
VerifiedAtIssuance(minTTL) ==
    /\ last.op = "verify"
    /\ last.out[1] \in issued
    /\ last.out[1].iat = now
    /\ last.out[1].exp - last.out[1].iat >= minTTL

SecondOf(t) == t \div TicksPerSecond

\* the last call was ValidateToken on a minting, answered in this instant
JustVerified == last.op = "verify"

\* C21 as claimed: a token issued at t0 with ttl T verifies at every time
\* strictly before t0 + T and fails at every time strictly after t0 + T,
\* iat and exp being recorded at whole-second precision.
C21_ExpiryBoundaryAsClaimed ==
    /\ \A m \in issued :
         /\ m.tok.iat % TicksPerSecond = 0 /\ m.tok.exp % TicksPerSecond = 0
         /\ now < m.at + m.ttl => JwtValid(m.tok, now)
         /\ now > m.at + m.ttl => ~JwtValid(m.tok, now)
    /\ JustVerified =>
         /\ now < last.out[1].at + last.out[1].ttl => last.res = OK
         /\ now > last.out[1].at + last.out[1].ttl => last.res = ErrParseToken

\* C21 amended: iat and exp are recorded at whole-second precision, exp
\* being t0 + T cut down to the whole second; a token issued at t0 with
\* ttl T verifies at every time from t0 on that lies in a second before the
\* second of t0 + T, and fails at every time from the start of that second
\* on: it fails strictly after t0 + T, at t0 + T, and already in the part
\* of that second that precedes t0 + T.
C21_ExpiryBoundary ==
    /\ \A m \in issued :
         /\ m.tok.iat % TicksPerSecond = 0 /\ m.tok.exp % TicksPerSecond = 0
         /\ JwtValid(m.tok, now) <=> SecondOf(now) < SecondOf(m.at + m.ttl)
         /\ now > m.at + m.ttl => ~JwtValid(m.tok, now)
    /\ JustVerified =>
         (last.res = OK <=> SecondOf(now) < SecondOf(last.out[1].at + last.out[1].ttl))

\* a token has just been refused in the second of t0 + T, before t0 + T
C21_Witness ==
    /\ JustVerified
    /\ last.res = ErrParseToken
    /\ now < last.out[1].at + last.out[1].ttl
    /\ SecondOf(now) = SecondOf(last.out[1].at + last.out[1].ttl)
    /\ last.out[1].ttl >= TicksPerSecond

\* the last request was a HandleGoogleCallback that failed
CallbackFailed == last.op = "callback" /\ last.res # OK

\* C22 as claimed: every failure of HandleGoogleCallback, at any step
\* (state take, provider exchange, identity validation, exchange-code
\* storage), yields InvalidGoogleCode, so the caller cannot tell the step.
C22_OpaqueCallbackErrorAsClaimed ==
    CallbackFailed => (last.res = ErrInvalidGoogleCode
                       /\ CallbackRedirect(last.res) = CallbackRedirect(ErrInvalidGoogleCode))

\* C22 amended: a failure of HandleGoogleCallback at the state take (state
\* absent, expired, or the store failing the take), at the provider
\* exchange or at identity validation yields InvalidGoogleCode, and the
\* browser is sent to the invalid_code page; a failure to store the
\* exchange code yields TokenStorageFailed, and the browser is sent to the
\* callback_failed page, so that step can be told from the others.
C22_CallbackErrors ==
    CallbackFailed =>
      /\ last.res \in {ErrInvalidGoogleCode, ErrTokenStorage}
      /\ last.res = ErrTokenStorage <=> last.arg.failed = {"StoreAuthCode"}
      /\ last.res = ErrInvalidGoogleCode => CallbackRedirect(last.res) = "invalid_code"
      /\ last.res = ErrTokenStorage => (last.idp /\ CallbackRedirect(last.res) = "callback_failed")

\* a callback whose state, code and identity were good has just failed to
\* store its exchange code
C22_Witness ==
    /\ CallbackFailed
    /\ last.res = ErrTokenStorage
    /\ last.arg.key \in 1..MaxNonces
    /\ statePasses[last.arg.key] = 1
    /\ stateCodes[last.arg.key] = 0

\* the last request failed, and a store call of it had failed
InfrastructureFailure == last.arg.failed # {} /\ last.res # OK

\* C23 as claimed: whenever an operation fails because the store is
\* unreachable or errors, the response status is 503.
C23_Infrastructure503AsClaimed ==
    InfrastructureFailure => HttpStatus(last.op, last.res) = StatusServiceUnavailable

\* C23 amended: no store failure surfaces as 503.  A failure to store a
\* state or tokens answers 500 TOKEN_STORAGE_FAILED, a failure of the
\* blacklist check 500 TOKEN_VALIDATION_FAILED, a failure of the key scan
\* of DeleteUserTokens 500 TOKEN_DELETION_FAILED; a failure to store the
\* exchange code redirects the browser (307); a failed take of a state or
\* an exchange code answers as an unknown one does (InvalidGoogleCode, 401,
\* or the redirect), a failed record lookup as a missing record does
\* (TokenNotFound, 401); a failed blacklist write and failed reads and
\* deletes inside DeleteUserTokens are passed over and the request succeeds.
C23_InfrastructureStatus ==
    LET f == last.arg.failed
        status == HttpStatus(last.op, last.res)
    IN /\ status # StatusServiceUnavailable
       /\ f \cap {"StoreState", "StoreAccessToken", "StoreRefreshToken"} # {}
            => (last.res = ErrTokenStorage /\ status = StatusInternalServerError)
       /\ "StoreAuthCode" \in f
            => (last.res = ErrTokenStorage /\ status = StatusTemporaryRedirect)
       /\ "IsTokenBlacklisted" \in f
            => (last.res = ErrTokenValidation /\ status = StatusInternalServerError)
       /\ "Keys" \in f
            => (last.res = ErrTokenDeletion /\ status = StatusInternalServerError)
       /\ "GetAndDeleteState" \in f
            => (last.res = ErrInvalidGoogleCode /\ status = StatusTemporaryRedirect)
       /\ "GetAndDeleteAuthCode" \in f
            => (last.res = ErrInvalidGoogleCode /\ status = StatusUnauthorized)
       /\ "GetTokenData" \in f
            => (last.res = ErrTokenNotFound /\ status = StatusUnauthorized)
       /\ (f # {} /\ f \subseteq {"BlacklistToken", "GetDel"})
            => (last.res = OK /\ status = StatusOK)

\* a RefreshToken that passed every check has just failed to store the
\* refresh entry of the new pair
C23_Witness ==
    /\ InfrastructureFailure
    /\ last.op = "refresh"
    /\ last.arg.failed = {"StoreRefreshToken"}
    /\ last.out[1] \in DOMAIN blacklist

\* C24: when two RefreshToken requests presenting the same refresh token
\* run concurrently, at most one of them succeeds, so one refresh token
\* never yields two new token pairs: a request never returns a pair of
\* strings not issued before for a refresh token that another request has
\* already rotated.
C24_SingleSpendRotation ==
    [][\A p \in 1..MaxReqs :
         (RefreshWrite(p) /\ last'.res = OK /\ last'.out[2] \notin issued)
           => reqs[p].key \notin rotated]_vars

\* C25: a RefreshToken request for subject S that passed its checks before
\* a Logout for S deleted S's tokens, and stores its new pair (strings
\* not issued before) afterwards, leaves no token of S that validates or
\* refreshes once both have completed.
C25_LogoutCoversInFlight ==
    [][\A p \in 1..MaxReqs :
         (/\ RefreshWrite(p)
          /\ reqs[p].key \in loggedOut
          /\ ~HasTokenData(reqs[p].key)
          /\ last'.out[1] \notin issued
          /\ \A q \in 1..MaxReqs : reqs'[q].pc = "idle")
         => \A t \in issued' :
              t.UserID = reqs[p].key.UserID
                => (ValidateTokenResult(t)' # OK /\ RefreshTokenResult(t)' # OK)]_vars

\* C26 as claimed: in RefreshToken the blacklist check precedes
\* cryptographic verification: a blacklisted refresh token is rejected
\* with TokenBlacklisted whether or not it still verifies and whether or
\* not it still has a StoredToken record.
C26_RefreshBlacklistFirstAsClaimed ==
    \A tok \in Presentable :
      (IsTokenBlacklisted(tok) /\ tok.Type = "refresh")
        => RefreshTokenResult(tok) = ErrTokenBlacklisted

\* C26 amended: in RefreshToken the blacklist check is the last check,
\* after cryptographic verification, the class check and the StoredToken
\* lookup.  A blacklisted refresh token is never accepted; it is rejected
\* with InvalidRefreshToken if it no longer verifies, else with
\* TokenNotFound if it has no StoredToken record, and with
\* TokenBlacklisted only when it verifies and still has its record.
C26_RefreshBlacklistLast ==
    \A tok \in Presentable :
      (IsTokenBlacklisted(tok) /\ tok.Type = "refresh")
        => RefreshTokenResult(tok) =
             (IF ~(tok.sig /\ now < tok.exp) THEN ErrInvalidRefreshToken
              ELSE IF tok \notin DOMAIN accessTokens \cup DOMAIN refreshTokens
                   THEN ErrTokenNotFound
              ELSE ErrTokenBlacklisted)

\* RefreshToken has just answered TokenNotFound, and a refresh token that
\* is blacklisted, still verifies and has no record is at hand
C26_Witness ==
    /\ last.op = "refresh"
    /\ last.res = ErrTokenNotFound
    /\ \E tok \in issued :
         /\ tok.Type = "refresh"
         /\ tok \in DOMAIN blacklist
         /\ JwtValid(tok, now)
         /\ ~HasTokenData(tok)

\* C27: Logout(t) keeps the presented token blacklisted for its whole
\* remaining lifetime, for a token of either class: the blacklist entry a
\* successful Logout(t) leaves for t does not expire before t does.
C27_LogoutBlacklistLifetime ==
    [][(last'.op = "logout" /\ last'.res = OK) =>
         \A t \in Presentable :
           Logout(t) => (t \in DOMAIN blacklist' /\ blacklist'[t].exp >= t.exp)]_vars

\* C28 as claimed: during rotation the blacklist entry for the old refresh
\* token gets a TTL equal to the token's remaining natural life, so the
\* entry disappears exactly when the token would have expired.
C28_RotationBlacklistTTLAsClaimed ==
    [][(last'.op = "refresh" /\ last'.res = OK) =>
         \A r1 \in Presentable :
           RefreshToken(r1) => (r1 \in DOMAIN blacklist' /\ blacklist'[r1].exp = r1.exp)]_vars

\* C28 amended: during rotation the blacklist entry for the old refresh
\* token gets the full configured RefreshTokenTTL, counted from the time of
\* the refresh: the entry never disappears before the token expires, and
\* it outlives the token by the age the token had when it was rotated.
C28_RotationBlacklistTTL ==
    [][(last'.op = "refresh" /\ last'.res = OK) =>
         \A r1 \in Presentable :
           RefreshToken(r1) => (/\ r1 \in DOMAIN blacklist'
                                /\ blacklist'[r1].exp = now + RefreshTokenTTL
                                /\ blacklist'[r1].exp - r1.exp = now - r1.iat)]_vars

\* a refresh token has just been rotated at an age of at least one
\* instant: its blacklist entry ends after the token does
C28_Witness ==
    /\ last.op = "refresh"
    /\ last.res = OK
    /\ \E r \in rotated :
         /\ r.iat < now
         /\ r \in DOMAIN blacklist
         /\ blacklist[r].exp = now + RefreshTokenTTL
         /\ blacklist[r].exp > r.exp

\* the keys of keyspace g whose entry the step from f to g has written
Written(f, g) == {k \in DOMAIN g : k \notin DOMAIN f \/ g[k] # f[k]}

\* C29: each StoredToken entry for subject S is written either by an
\* ExchangeAuthCode call that consumes an exchange code stored for a
\* validated identity with id S, or by a RefreshToken call that presents a
\* refresh token then holding a StoredToken record of S; no other
\* operation writes StoredToken entries.
C29_TokenProvenance ==
    [][\A g \in {<<accessTokens, accessTokens'>>, <<refreshTokens, refreshTokens'>>} :
         \A k \in Written(g[1], g[2]) :
           \/ /\ last'.op = "exchange"
              /\ \E c \in DOMAIN authCodes :
                   /\ ExchangeAuthCode(c)
                   /\ c \notin DOMAIN authCodes'
                   /\ authCodes[c].info.ID = g[2][k].UserID
                   /\ authCodes[c].info.ID # ""
                   /\ authCodes[c].info.Email # ""
                   /\ authCodes[c].info.VerifiedEmail
           \/ /\ last'.op = "refresh"
              /\ \E tok \in Presentable :
                   /\ RefreshToken(tok)
                   /\ tok.Type = "refresh"
                   /\ tok \in DOMAIN refreshTokens
                   /\ refreshTokens[tok].UserID = g[2][k].UserID]_vars

\* a RefreshToken has just stored the entries of a pair of strings not
\* issued before the rotation of the token it was given
C29_Witness ==
    /\ last.op = "refresh"
    /\ last.res = OK
    /\ last.out[1] \in DOMAIN accessTokens
    /\ last.out[2] \in DOMAIN refreshTokens
    /\ last.out[1].iat = now
    /\ \E r \in rotated : r.iat < now /\ r.UserID = accessTokens[last.out[1]].UserID

\* C30: a HandleGoogleCallback arriving more than StateTTL (10 minutes)
\* after its state was issued, and an ExchangeAuthCode arriving more than
\* AuthCodeTTL (5 minutes) after its code was stored, fail with
\* InvalidGoogleCode as for a value that never existed, and issue nothing:
\* a state or code still in the store was stored less than its TTL ago,
\* and a call for one that is not in the store is refused and writes
\* nothing.
C30_TransientExpiry ==
    /\ [](/\ \A s \in DOMAIN oauthStates :
               now < oauthStates[s].exp /\ oauthStates[s].exp <= now + StateTTL
          /\ \A c \in DOMAIN authCodes :
               now < authCodes[c].exp /\ authCodes[c].exp <= now + AuthCodeTTL)
    /\ [][/\ (last'.op = "callback" /\ last'.arg \notin DOMAIN oauthStates)
             => (/\ last'.res = ErrInvalidGoogleCode
                 /\ ~last'.idp
                 /\ UNCHANGED <<store, issued, nextCode>>)
          /\ (last'.op = "exchange" /\ last'.arg \notin DOMAIN authCodes)
             => (/\ last'.res = ErrInvalidGoogleCode
                 /\ UNCHANGED <<store, issued, codeGrants>>)]_vars

\* an ExchangeAuthCode has just been refused for an exchange code that was
\* stored, never taken and has expired, and a state that was issued and
\* never presented has expired too
C30_Witness ==
    /\ last.op = "exchange"
    /\ last.res = ErrInvalidGoogleCode
    /\ last.arg \in 1..(nextCode - 1)
    /\ codeGrants[last.arg] = 0
    /\ \E s \in 1..(nextState - 1) : statePasses[s] = 0 /\ s \notin DOMAIN oauthStates

\* ---------------------------------------------------------------- C31
\* the answer of a RefreshToken or Logout whose blacklist write failed
BlacklistWriteFailed(op) == last.op = op /\ "BlacklistToken" \in last.arg.failed

\* C31: a failing blacklist write does not abort the operation: the
\* RefreshToken whose BlacklistToken call failed still answers with the new
\* pair and has stored both its entries, the Logout whose BlacklistToken
\* call failed still answers success and no entry of the subject remains.
C31_BlacklistFailureDoesNotAbort ==
    /\ BlacklistWriteFailed("refresh") =>
         /\ last.res = OK
         /\ Len(last.out) = 3
         /\ last.out[2] \in DOMAIN accessTokens
         /\ last.out[3] \in DOMAIN refreshTokens
    /\ BlacklistWriteFailed("logout") =>
         /\ last.res = OK
         /\ \A k \in DOMAIN accessTokens : accessTokens[k].UserID # last.out[1].UserID
         /\ \A k \in DOMAIN refreshTokens : refreshTokens[k].UserID # last.out[1].UserID

\* a RefreshToken whose blacklist write failed has answered with a new
\* pair, and the presented refresh token is not blacklisted
C31_Witness ==
    /\ BlacklistWriteFailed("refresh")
    /\ last.res = OK
    /\ last.out[1] \notin DOMAIN blacklist
    /\ last.out[3] \in DOMAIN refreshTokens

\* ---------------------------------------------------------------- C32
\* C32: a RefreshToken that answers an error leaves the session intact:
\* the call has not blacklisted the presented refresh token and has neither
\* added nor removed a StoredToken entry.
C32_FailedRefreshLeavesSession ==
    [][(last'.op = "refresh" /\ last'.res # OK) =>
         /\ (last'.out[1] \in DOMAIN blacklist') => (last'.out[1] \in DOMAIN blacklist)
         /\ accessTokens' = accessTokens
         /\ refreshTokens' = refreshTokens]_vars

KeepsEntries(f, g) == \A k \in DOMAIN f : k \in DOMAIN g /\ g[k] = f[k]

C35_LogoutOnlyCryptographic ==
    [][(last'.op = "logout") =>
         \A t \in Presentable :
           Logout(t) =>
             /\ (last'.res = OK) <=> JwtValid(t, now)
             /\ (last'.res # OK) => (last'.res = ErrInvalidAccessToken)
             /\ (last'.res = OK) =>
                  /\ \A k \in DOMAIN accessTokens' : accessTokens'[k].UserID # t.UserID
                  /\ \A k \in DOMAIN refreshTokens' : refreshTokens'[k].UserID # t.UserID]_vars

\* one login, then two successful logouts with the same token string in
\* the same instant: the second one presented a token that was already
\* blacklisted and had no StoredToken record
C35_Witness ==
    /\ last.op = "logout"
    /\ last.res = OK
    /\ now = 0
    /\ nSessionOps = 2
    /\ rotated = {}
    /\ Cardinality({c \in DOMAIN codeGrants : codeGrants[c] = 1}) = 1
    /\ \A c \in DOMAIN codeGrants : codeGrants[c] <= 1
    /\ Cardinality(DOMAIN blacklist) = 1
    /\ accessTokens = Empty
    /\ refreshTokens = Empty

\* ---------------------------------------------------------------- C36
\* C36: issuer consistency of the codec: whatever issuer the Manager was
\* configured with, every token its GenerateToken produced carries the
\* issuer its ValidateToken requires, and ValidateToken never answers the
\* invalid-issuer error for such a token while it is unexpired.
C36_IssuerConsistency ==
    /\ \A tok \in issued : tok.iss = issuer
    /\ (/\ last.op = "verify"
        /\ last.out[1] \in issued
        /\ last.out[1].iat <= now
        /\ now < last.out[1].exp) => last.res # ErrInvalidIssuer

\* ---------------------------------------------------------------- C37
\* the handler calls processMessages may make for one delivery
MaxAttempts == IF maxRetries + 1 > 0 THEN maxRetries + 1 ELSE 0

\* C37: message consumption settles each delivery exactly once: the handler
\* is called at most MaxRetries+1 times for a delivery and never again after
\* a call that succeeded; at most one of Ack and Reject is ever issued;
\* when processMessages has returned exactly one was, Ack exactly when an
\* attempt succeeded, Reject exactly when all MaxRetries+1 attempts failed;
\* and processMessages always returns.
C37_SettledExactlyOnce ==
    /\ [](\A d \in 1..MaxDeliveries :
            /\ settled[d].calls <= MaxAttempts
            /\ settled[d].acks + settled[d].rejects <= 1
            /\ settled[d].ok => settled[d].returned
            /\ settled[d].returned =>
                 /\ settled[d].acks + settled[d].rejects = 1
                 /\ (settled[d].acks = 1) <=> settled[d].ok
                 /\ (settled[d].rejects = 1) => (settled[d].calls = MaxAttempts))
    /\ [][\A d \in 1..MaxDeliveries :
            (settled[d].ok \/ settled[d].returned) => settled'[d] = settled[d]]_vars
    /\ \A d \in 1..MaxDeliveries :
            (consumer.pc = "loop" /\ consumer.d = d) ~> settled[d].returned

\* one delivery was acknowledged after a failed attempt and another was
\* rejected after MaxRetries+1 failed attempts
C37_Witness ==
    /\ maxRetries >= 1
    /\ \E d \in 1..MaxDeliveries, e \in 1..MaxDeliveries :
         /\ settled[d].returned /\ settled[d].acks = 1 /\ settled[d].calls >= 2
         /\ settled[e].returned /\ settled[e].rejects = 1
         /\ settled[e].calls = maxRetries + 1

\* ---------------------------------------------------------------- C38
\* C38: rate-limit windows always end: in every reachable state every
\* counter key carries an expiry, no later than one window from now, also
\* after a request whose EXPIRE failed.
C38_WindowsAlwaysEnd ==
    \A k \in DOMAIN counters :
        /\ counters[k].exp # NoExpiry
        /\ counters[k].exp <= now + RateLimitWindow
====
